---------------------------- MODULE Spec2Model ----------------------------
(***************************************************************************)
(* MRZ validation and risk scoring engine of the passport pipeline:        *)
(* src/src/infrastructure/rules/passport_rules.py, with the MRZ builders   *)
(* of src/scripts/simulate_fraud.py and the pipeline around the engine,    *)
(* src/src/core/use_cases/analyze_document.py.                             *)
(*                                                                         *)
(* A Python str is a sequence of characters; a character is a one-letter   *)
(* string, except "TAB" (U+0009) and "sup2" (U+00B2, SUPERSCRIPT TWO: a    *)
(* character for which str.isdigit() is true and int() raises ValueError). *)
(* None is the empty tuple (no place of the engine tells None from "").     *)
(***************************************************************************)
EXTENDS Integers, Sequences, FiniteSets, TLC

VARIABLES
    base,               \* simulate_fraud: the field map a variant was derived from
    fields,             \* apply: the field map of the call
    today,              \* apply: the value of date.today() during the call
    pc,                 \* apply: "parse", "rules", "aggregate", "done", "raised"; "call"/"returned" for a direct call;
                        \* execute: "quality", "ocr", "apply", "decide" around those of apply, then "returned"
    rule_index,         \* apply: index into self._rules of the next rule to run
    mrz,                \* apply: None or the MRZParsed record
    violations,         \* apply: the list of RuleViolation
    rules_failed_set,   \* apply: the set of failed rule ids
    result,             \* apply: None or the returned RulesResult
    call,               \* direct call of a pure function: its name and arguments
    ret,                \* direct call of a pure function: its return value or exception
    self_rules,         \* the engine instance: self._rules, the catalog built by __init__
    second,             \* a second call of apply on the same engine: its arguments and locals
    analysis            \* execute: None or its locals (result, stage_latencies) and the calls it made

vars == <<base, fields, today, pc, rule_index, mrz, violations, rules_failed_set, result, call, ret,
          self_rules, second, analysis>>

None == <<>>

-----------------------------------------------------------------------------
(* Characters and the str methods the engine uses.                         *)

DigitChars == <<"0","1","2","3","4","5","6","7","8","9">>
UpperChars == <<"A","B","C","D","E","F","G","H","I","J","K","L","M","N","O","P","Q","R","S","T","U","V","W","X","Y","Z">>
LowerChars == <<"a","b","c","d","e","f","g","h","i","j","k","l","m","n","o","p","q","r","s","t","u","v","w","x","y","z">>

Range(s) == {s[i] : i \in DOMAIN s}

IndexOf(s, c) == CHOOSE i \in DOMAIN s : s[i] = c

Min(a, b) == IF a < b THEN a ELSE b

\* str.isdecimal() of one character, which is also what the regex \d matches
IsDecimalChar(c) == c \in Range(DigitChars)

\* str.isdigit() of one character: the decimal digits and digit-like characters such as U+00B2
IsDigitChar(c) == c \in Range(DigitChars) \cup {"sup2"}

\* int() of a one-character string raises ValueError
IntOfCharRaises(c) == ~IsDecimalChar(c)

\* int() of a one-character decimal digit
IntOfChar(c) == IndexOf(DigitChars, c) - 1

\* what str.strip() removes at both ends
IsSpaceChar(c) == c \in {" ", "TAB"}

UpperChar(c) == IF c \in Range(LowerChars) THEN UpperChars[IndexOf(LowerChars, c)] ELSE c

\* s.upper()
Upper(s) == [i \in DOMAIN s |-> UpperChar(s[i])]

\* s[a:b] with 0 <= a, 0 <= b
Slice(s, a, b) == SubSeq(s, a + 1, Min(b, Len(s)))

\* s[a:]
SliceFrom(s, a) == SubSeq(s, a + 1, Len(s))

RECURSIVE LStrip(_)
LStrip(s) == IF s # <<>> /\ IsSpaceChar(Head(s)) THEN LStrip(Tail(s)) ELSE s

RECURSIVE RStrip(_)
RStrip(s) == IF s # <<>> /\ IsSpaceChar(s[Len(s)]) THEN RStrip(SubSeq(s, 1, Len(s) - 1)) ELSE s

\* s.strip()
Strip(s) == RStrip(LStrip(s))

\* s.replace(c, "") for a one-character c
RemoveChar(s, c) == SelectSeq(s, LAMBDA x : x # c)

\* s.replace(c, d) for one-character c and d
ReplaceChar(s, c, d) == [i \in DOMAIN s |-> IF s[i] = c THEN d ELSE s[i]]

\* s.startswith(c) for a one-character c
StartsWith(s, c) == s # <<>> /\ s[1] = c

\* s.ljust(n, c)[:n]
LJustCut(s, n, c) == [i \in 1..n |-> IF i <= Len(s) THEN s[i] ELSE c]

\* c * n
Rep(c, n) == [i \in 1..n |-> c]

\* the position (1-based) of the first "<<" in s, or 0
FirstSep(s) ==
    LET hits == {i \in 1..(Len(s) - 1) : s[i] = "<" /\ s[i + 1] = "<"}
    IN IF hits = {} THEN 0 ELSE CHOOSE i \in hits : \A j \in hits : i <= j

\* s.split("<<")[0]
SplitFirst(s) == IF FirstSep(s) = 0 THEN s ELSE SubSeq(s, 1, FirstSep(s) - 1)

\* s.split("<<")[1] when the split has at least two parts
SplitSecond(s) ==
    LET rest == SubSeq(s, FirstSep(s) + 2, Len(s))
    IN SplitFirst(rest)

-----------------------------------------------------------------------------
(* ICAO 9303 check digit.                                                  *)

\* the dict built at import time: digits, then letters, then the filler
MRZ_CHAR_VALUES ==
    [c \in Range(DigitChars) \cup Range(UpperChars) \cup {"<"} |->
        IF c \in Range(DigitChars) THEN IndexOf(DigitChars, c) - 1
        ELSE IF c \in Range(UpperChars) THEN 10 + (IndexOf(UpperChars, c) - 1)
        ELSE 0]

MRZ_WEIGHTS_swapped == <<7, 1, 3>>

MRZ_WEIGHTS == <<7, 3, 1>>

\* MRZ_CHAR_VALUES.get(char.upper(), 0)
CharValue(char) ==
    IF UpperChar(char) \in DOMAIN MRZ_CHAR_VALUES THEN MRZ_CHAR_VALUES[UpperChar(char)] ELSE 0

\* the loop of mrz_check_digit after i iterations: total
RECURSIVE CheckDigitTotal(_, _)
CheckDigitTotal(data, i) ==
    IF i = 0 THEN 0
    ELSE CheckDigitTotal(data, i - 1) + CharValue(data[i]) * MRZ_WEIGHTS[((i - 1) % 3) + 1]

mrz_check_digit(data) == CheckDigitTotal(data, Len(data)) % 10

-----------------------------------------------------------------------------
(* datetime.date, as <<year, month, day>>.                                 *)

IsLeap(y) == (y % 4 = 0) /\ ((y % 100 # 0) \/ (y % 400 = 0))

DaysInMonth(y, m) ==
    IF m = 2 THEN (IF IsLeap(y) THEN 29 ELSE 28)
    ELSE IF m \in {4, 6, 9, 11} THEN 30 ELSE 31

\* date(year, month, day) raises ValueError: a component is out of range
DateRaisesValueError(y, m, d) ==
    ~(y \in 1..9999 /\ m \in 1..12 /\ d >= 1 /\ d <= DaysInMonth(y, m))

\* date(year, month, day)
date(y, m, d) == <<y, m, d>>

RECURSIVE DaysBeforeMonth(_, _)
DaysBeforeMonth(y, m) == IF m = 1 THEN 0 ELSE DaysBeforeMonth(y, m - 1) + DaysInMonth(y, m - 1)

\* date.toordinal()
ToOrdinal(dt) ==
    LET y == dt[1] - 1
    IN y * 365 + (y \div 4) - (y \div 100) + (y \div 400) + DaysBeforeMonth(dt[1], dt[2]) + dt[3]

\* (a - b).days
DaysBetween(a, b) == ToOrdinal(a) - ToOrdinal(b)

\* int() of a string of two decimal digits
Int2(s) == 10 * IntOfChar(s[1]) + IntOfChar(s[2])

\* the century rule with its boundary moved by one
CenturyYear_off_by_one(yy) == IF yy <= 30 THEN 2000 + yy ELSE 1900 + yy

\* year = 2000 + yy if yy < 30 else 1900 + yy
CenturyYear(yy) == IF yy < 30 THEN 2000 + yy ELSE 1900 + yy

\* parse_mrz_date: the date, or None. A string that isdigit() accepts and int()
\* rejects raises ValueError inside the try and gives None as well.
parse_mrz_date(date_str) ==
    IF Len(date_str) # 6 \/ \E i \in DOMAIN date_str : ~IsDigitChar(date_str[i]) THEN None
    ELSE IF \E i \in DOMAIN date_str : ~IsDecimalChar(date_str[i]) THEN None
    ELSE LET yy == Int2(Slice(date_str, 0, 2))
             mm == Int2(Slice(date_str, 2, 4))
             dd == Int2(Slice(date_str, 4, 6))
         IN IF DateRaisesValueError(CenturyYear(yy), mm, dd) THEN None
            ELSE date(CenturyYear(yy), mm, dd)

-----------------------------------------------------------------------------
(* MRZ parser.                                                             *)

MinMrzLen == 40

\* MRZParsed(raw_line1=line1, raw_line2=line2): every other field at its default
MRZParsed(line1, line2) ==
    [document_code |-> <<>>, issuing_country |-> <<>>,
     primary_identifier |-> <<>>, secondary_identifier |-> <<>>,
     document_number |-> <<>>, document_number_check |-> -1,
     nationality |-> <<>>, date_of_birth |-> <<>>, dob_check |-> -1,
     sex |-> <<>>, date_of_expiry |-> <<>>, doe_check |-> -1,
     personal_number |-> <<>>, personal_number_check |-> -1, composite_check |-> -1,
     raw_line1 |-> line1, raw_line2 |-> line2, is_valid_format |-> FALSE]

\* line.strip().upper().replace(" ", "")
NormalizeLine(line) == RemoveChar(Upper(Strip(line)), " ")

\* int(l2[k]) if l2[k].isdigit() else -1 raises ValueError
CheckDigitAtRaises(l2, k) == IsDigitChar(l2[k + 1]) /\ IntOfCharRaises(l2[k + 1])

\* int(l2[k]) if l2[k].isdigit() else -1
CheckDigitAt(l2, k) == IF IsDigitChar(l2[k + 1]) THEN IntOfChar(l2[k + 1]) ELSE -1

\* parse_mrz_td3 returns early: a line is too short
ParseTooShort(line1, line2) ==
    Len(NormalizeLine(line1)) < MinMrzLen \/ Len(NormalizeLine(line2)) < MinMrzLen

\* parse_mrz_td3 raises ValueError: one of the five int() calls is reached with a
\* character that isdigit() accepts and int() rejects
parse_mrz_td3_raises(line1, line2) ==
    LET l2 == NormalizeLine(line2)
    IN /\ ~ParseTooShort(line1, line2)
       /\ \/ CheckDigitAtRaises(l2, 9)
          \/ CheckDigitAtRaises(l2, 19)
          \/ CheckDigitAtRaises(l2, 27)
          \/ (Len(l2) > 42 /\ CheckDigitAtRaises(l2, 42))
          \/ (Len(l2) > 43 /\ CheckDigitAtRaises(l2, 43))

\* parse_mrz_td3 when it returns
parse_mrz_td3(line1, line2) ==
    LET l1 == NormalizeLine(line1)
        l2 == NormalizeLine(line2)
        names_section == SliceFrom(l1, 5)
    IN IF ParseTooShort(line1, line2) THEN MRZParsed(line1, line2)
       ELSE [document_code |-> RemoveChar(Slice(l1, 0, 2), "<"),
             issuing_country |-> Slice(l1, 2, 5),
             primary_identifier |-> Strip(ReplaceChar(SplitFirst(names_section), "<", " ")),
             secondary_identifier |->
                 IF FirstSep(names_section) # 0
                 THEN Strip(ReplaceChar(SplitSecond(names_section), "<", " "))
                 ELSE <<>>,
             document_number |-> RemoveChar(Slice(l2, 0, 9), "<"),
             document_number_check |-> CheckDigitAt(l2, 9),
             nationality |-> Slice(l2, 10, 13),
             date_of_birth |-> Slice(l2, 13, 19),
             dob_check |-> CheckDigitAt(l2, 19),
             sex |-> Slice(l2, 20, 21),
             date_of_expiry |-> Slice(l2, 21, 27),
             doe_check |-> CheckDigitAt(l2, 27),
             personal_number |-> RemoveChar(Slice(l2, 28, 42), "<"),
             personal_number_check |-> IF Len(l2) > 42 THEN CheckDigitAt(l2, 42) ELSE -1,
             composite_check |-> IF Len(l2) > 43 THEN CheckDigitAt(l2, 43) ELSE -1,
             raw_line1 |-> line1, raw_line2 |-> line2, is_valid_format |-> TRUE]

-----------------------------------------------------------------------------
(* Rule catalog. A rule returns a list of (severity, detail) pairs, here   *)
(* records; detail is the message without its interpolated values.         *)

VALID_COUNTRY_CODES ==
    {
     <<"A","F","G">>, <<"A","L","B">>, <<"D","Z","A">>, <<"A","N","D">>, <<"A","G","O">>, <<"A","R","G">>,
     <<"A","R","M">>, <<"A","U","S">>, <<"A","U","T">>, <<"A","Z","E">>, <<"B","H","S">>, <<"B","H","R">>,
     <<"B","G","D">>, <<"B","R","B">>, <<"B","L","R">>, <<"B","E","L">>, <<"B","L","Z">>, <<"B","E","N">>,
     <<"B","T","N">>, <<"B","O","L">>, <<"B","I","H">>, <<"B","W","A">>, <<"B","R","A">>, <<"B","R","N">>,
     <<"B","G","R">>, <<"B","F","A">>, <<"B","D","I">>, <<"K","H","M">>, <<"C","M","R">>, <<"C","A","N">>,
     <<"C","P","V">>, <<"C","A","F">>, <<"T","C","D">>, <<"C","H","L">>, <<"C","H","N">>, <<"C","O","L">>,
     <<"C","O","G">>, <<"C","R","I">>, <<"H","R","V">>, <<"C","U","B">>, <<"C","Y","P">>, <<"C","Z","E">>,
     <<"D","N","K">>, <<"D","J","I">>, <<"D","O","M">>, <<"E","C","U">>, <<"E","G","Y">>, <<"S","L","V">>,
     <<"G","N","Q">>, <<"E","R","I">>, <<"E","S","T">>, <<"E","T","H">>, <<"F","I","N">>, <<"F","R","A">>,
     <<"G","A","B">>, <<"G","M","B">>, <<"G","E","O">>, <<"D","E","U">>, <<"G","H","A">>, <<"G","R","C">>,
     <<"G","T","M">>, <<"G","I","N">>, <<"G","U","Y">>, <<"H","T","I">>, <<"H","N","D">>, <<"H","U","N">>,
     <<"I","S","L">>, <<"I","N","D">>, <<"I","D","N">>, <<"I","R","N">>, <<"I","R","Q">>, <<"I","R","L">>,
     <<"I","S","R">>, <<"I","T","A">>, <<"J","A","M">>, <<"J","P","N">>, <<"J","O","R">>, <<"K","A","Z">>,
     <<"K","E","N">>, <<"K","W","T">>, <<"K","G","Z">>, <<"L","A","O">>, <<"L","V","A">>, <<"L","B","N">>,
     <<"L","S","O">>, <<"L","B","R">>, <<"L","B","Y">>, <<"L","I","E">>, <<"L","T","U">>, <<"L","U","X">>,
     <<"M","D","G">>, <<"M","W","I">>, <<"M","Y","S">>, <<"M","D","V">>, <<"M","L","I">>, <<"M","L","T">>,
     <<"M","R","T">>, <<"M","U","S">>, <<"M","E","X">>, <<"M","D","A">>, <<"M","C","O">>, <<"M","N","G">>,
     <<"M","N","E">>, <<"M","A","R">>, <<"M","O","Z">>, <<"M","M","R">>, <<"N","A","M">>, <<"N","P","L">>,
     <<"N","L","D">>, <<"N","Z","L">>, <<"N","I","C">>, <<"N","E","R">>, <<"N","G","A">>, <<"N","O","R">>,
     <<"O","M","N">>, <<"P","A","K">>, <<"P","A","N">>, <<"P","R","Y">>, <<"P","E","R">>, <<"P","H","L">>,
     <<"P","O","L">>, <<"P","R","T">>, <<"Q","A","T">>, <<"R","O","U">>, <<"R","U","S">>, <<"R","W","A">>,
     <<"S","A","U">>, <<"S","E","N">>, <<"S","R","B">>, <<"S","G","P">>, <<"S","V","K">>, <<"S","V","N">>,
     <<"S","O","M">>, <<"Z","A","F">>, <<"K","O","R">>, <<"E","S","P">>, <<"L","K","A">>, <<"S","D","N">>,
     <<"S","U","R">>, <<"S","W","Z">>, <<"S","W","E">>, <<"C","H","E">>, <<"S","Y","R">>, <<"T","W","N">>,
     <<"T","J","K">>, <<"T","Z","A">>, <<"T","H","A">>, <<"T","G","O">>, <<"T","T","O">>, <<"T","U","N">>,
     <<"T","U","R">>, <<"T","K","M">>, <<"U","G","A">>, <<"U","K","R">>, <<"A","R","E">>, <<"G","B","R">>,
     <<"U","S","A">>, <<"U","R","Y">>, <<"U","Z","B">>, <<"V","E","N">>, <<"V","N","M">>, <<"Y","E","M">>,
     <<"Z","M","B">>, <<"Z","W","E">>, <<"U","T","O">>
    }

\* fields.get(key, "")
Get(f, key) == IF key \in DOMAIN f THEN f[key] ELSE <<>>

\* [(sev, detail)] if cond else []
When(cond, sev, detail) == IF cond THEN <<[severity |-> sev, detail |-> detail]>> ELSE <<>>

SENTINEL == <<"[","b","b","o","x","_","p","r","e","s","e","n","t","]">>

not_mrz(m) == m = None

rule_mrz_format(f, m) ==
    LET l1 == Get(f, "mrz_upper_line")
        l2 == Get(f, "mrz_lower_line")
    IN (IF l1 = <<>> THEN When(TRUE, "CRITICAL", "MRZ line 1 not found")
        ELSE When(Len(Strip(l1)) < MinMrzLen, "HIGH", "MRZ line 1 too short"))
       \o (IF l2 = <<>> THEN When(TRUE, "CRITICAL", "MRZ line 2 not found")
           ELSE When(Len(Strip(l2)) < MinMrzLen, "HIGH", "MRZ line 2 too short"))
       \o When(l1 # <<>> /\ ~StartsWith(Upper(Strip(l1)), "P"), "MEDIUM", "MRZ line 1 should start with 'P'")

\* _rule_doc_number_check without the is_valid_format guard
rule_doc_number_check_no_format_guard(f, m) ==
    IF not_mrz(m) THEN <<>>
    ELSE LET l2 == Upper(Strip(m.raw_line2))
         IN IF Len(l2) < 10 THEN <<>>
            ELSE When(m.document_number_check # mrz_check_digit(Slice(l2, 0, 9)),
                      "CRITICAL", "Doc number check")

\* _rule_doc_number_check with the slice one column short
rule_doc_number_check_short_slice(f, m) ==
    IF not_mrz(m) \/ ~m.is_valid_format THEN <<>>
    ELSE LET l2 == Upper(Strip(m.raw_line2))
         IN IF Len(l2) < 10 THEN <<>>
            ELSE When(m.document_number_check # mrz_check_digit(Slice(l2, 0, 8)),
                      "CRITICAL", "Doc number check")

rule_doc_number_check(f, m) ==
    IF not_mrz(m) \/ ~m.is_valid_format THEN <<>>
    ELSE LET l2 == Upper(Strip(m.raw_line2))
         IN IF Len(l2) < 10 THEN <<>>
            ELSE When(m.document_number_check # mrz_check_digit(Slice(l2, 0, 9)),
                      "CRITICAL", "Doc number check")

rule_dob_check(f, m) ==
    IF not_mrz(m) \/ ~m.is_valid_format THEN <<>>
    ELSE LET l2 == Upper(Strip(m.raw_line2))
         IN IF Len(l2) < 20 THEN <<>>
            ELSE When(m.dob_check # mrz_check_digit(Slice(l2, 13, 19)),
                      "CRITICAL", "DOB check")

rule_doe_check(f, m) ==
    IF not_mrz(m) \/ ~m.is_valid_format THEN <<>>
    ELSE LET l2 == Upper(Strip(m.raw_line2))
         IN IF Len(l2) < 28 THEN <<>>
            ELSE When(m.doe_check # mrz_check_digit(Slice(l2, 21, 27)),
                      "CRITICAL", "DOE check")

rule_personal_number_check(f, m) ==
    IF not_mrz(m) \/ ~m.is_valid_format THEN <<>>
    ELSE LET l2 == Upper(Strip(m.raw_line2))
             pn == Slice(l2, 28, 42)
         IN IF Len(l2) < 43 THEN <<>>
            ELSE IF RemoveChar(pn, "<") = <<>> THEN <<>>
            ELSE When(m.personal_number_check # mrz_check_digit(pn),
                      "HIGH", "Personal number check")

\* _rule_composite_check with the last slice one column short
rule_composite_check_short_slice(f, m) ==
    IF not_mrz(m) \/ ~m.is_valid_format THEN <<>>
    ELSE LET l2 == Upper(Strip(m.raw_line2))
             composite_data == Slice(l2, 0, 10) \o Slice(l2, 13, 20) \o Slice(l2, 21, 42)
         IN IF Len(l2) < 44 THEN <<>>
            ELSE When(m.composite_check # mrz_check_digit(composite_data),
                      "CRITICAL", "Composite check")

rule_composite_check(f, m) ==
    IF not_mrz(m) \/ ~m.is_valid_format THEN <<>>
    ELSE LET l2 == Upper(Strip(m.raw_line2))
             composite_data == Slice(l2, 0, 10) \o Slice(l2, 13, 20) \o Slice(l2, 21, 43)
         IN IF Len(l2) < 44 THEN <<>>
            ELSE When(m.composite_check # mrz_check_digit(composite_data),
                      "CRITICAL", "Composite check")

\* the rule when only the issuing country is looked up
rule_country_code_issuer_only(f, m) ==
    IF not_mrz(m) \/ ~m.is_valid_format THEN <<>>
    ELSE LET issuing == RemoveChar(m.issuing_country, "<")
         IN When(issuing # <<>> /\ issuing \notin VALID_COUNTRY_CODES, "HIGH", "Invalid issuing country")

rule_country_code(f, m) ==
    IF not_mrz(m) \/ ~m.is_valid_format THEN <<>>
    ELSE LET issuing == RemoveChar(m.issuing_country, "<")
             nat == RemoveChar(m.nationality, "<")
         IN When(issuing # <<>> /\ issuing \notin VALID_COUNTRY_CODES, "HIGH", "Invalid issuing country")
            \o When(nat # <<>> /\ nat \notin VALID_COUNTRY_CODES, "HIGH", "Invalid nationality")

\* a > b for dates
DateGT(a, b) == ToOrdinal(a) > ToOrdinal(b)

\* (a - b).days / 365.25 > n, for a whole number n
YearsBetweenExceed(a, b, n) == 4 * DaysBetween(a, b) > n * 1461

\* the rule when the two dates are never compared with each other
rule_date_plausibility_no_order(f, m, t) ==
    IF not_mrz(m) \/ ~m.is_valid_format THEN <<>>
    ELSE LET dob == parse_mrz_date(m.date_of_birth)
             doe == parse_mrz_date(m.date_of_expiry)
         IN (IF dob # None
             THEN When(DateGT(dob, t), "CRITICAL", "DOB in future")
                  \o When(YearsBetweenExceed(t, dob, 150), "HIGH", "Implausible age")
             ELSE <<>>)
            \o (IF doe # None
                THEN When(DateGT(t, doe), "CRITICAL", "Document expired")
                     \o When(YearsBetweenExceed(doe, t, 15), "HIGH", "Expiry too far")
                ELSE <<>>)

\* the rule when the expiry limit is 10 years
rule_date_plausibility_ten_years(f, m, t) ==
    IF not_mrz(m) \/ ~m.is_valid_format THEN <<>>
    ELSE LET dob == parse_mrz_date(m.date_of_birth)
             doe == parse_mrz_date(m.date_of_expiry)
         IN (IF dob # None
             THEN When(DateGT(dob, t), "CRITICAL", "DOB in future")
                  \o When(YearsBetweenExceed(t, dob, 150), "HIGH", "Implausible age")
             ELSE <<>>)
            \o (IF doe # None
                THEN When(DateGT(t, doe), "CRITICAL", "Document expired")
                     \o When(YearsBetweenExceed(doe, t, 10), "HIGH", "Expiry too far")
                ELSE <<>>)
            \o When(dob # None /\ doe # None /\ ~DateGT(doe, dob), "CRITICAL", "DOB after DOE")

rule_date_plausibility(f, m, t) ==
    IF not_mrz(m) \/ ~m.is_valid_format THEN <<>>
    ELSE LET dob == parse_mrz_date(m.date_of_birth)
             doe == parse_mrz_date(m.date_of_expiry)
         IN (IF dob # None
             THEN When(DateGT(dob, t), "CRITICAL", "DOB in future")
                  \o When(YearsBetweenExceed(t, dob, 150), "HIGH", "Implausible age")
             ELSE <<>>)
            \o (IF doe # None
                THEN When(DateGT(t, doe), "CRITICAL", "Document expired")
                     \o When(YearsBetweenExceed(doe, t, 15), "HIGH", "Expiry too far")
                ELSE <<>>)
            \o When(dob # None /\ doe # None /\ ~DateGT(doe, dob), "CRITICAL", "DOB after DOE")

REQUIRED_FIELDS == <<"mrz_upper_line", "mrz_lower_line", "primary_identifier", "date_of_birth", "document_number">>

RECURSIVE RequiredFrom(_, _)
RequiredFrom(f, i) ==
    IF i > Len(REQUIRED_FIELDS) THEN <<>>
    ELSE LET val == Get(f, REQUIRED_FIELDS[i])
         IN When(val = <<>> \/ Strip(val) \in {<<>>, SENTINEL}, "HIGH", REQUIRED_FIELDS[i])
            \o RequiredFrom(f, i + 1)

\* the rule when a key that is not in the map is not looked at
rule_required_fields_present_keys_only(f, m) == SelectSeq(RequiredFrom(f, 1), LAMBDA v : v.detail \in DOMAIN f)

\* the detail of a REQUIRED_FIELDS violation is the missing field's name
rule_required_fields(f, m) == RequiredFrom(f, 1)

-----------------------------------------------------------------------------
(* CROSS_CHECK: the VIZ birth date is read with re.findall(r'\d+', ...),    *)
(* int() and date(). date() converts its arguments to C ints first          *)
(* (OverflowError above 2^31 - 1) and range-checks them second (ValueError).*)

RECURSIVE FindAllDigits(_, _, _)
\* re.findall(r'\d+', s) from position i on, cur being the run collected so far
FindAllDigits(s, i, cur) ==
    IF i > Len(s) THEN (IF cur = <<>> THEN <<>> ELSE <<cur>>)
    ELSE IF IsDecimalChar(s[i]) THEN FindAllDigits(s, i + 1, Append(cur, s[i]))
    ELSE (IF cur = <<>> THEN <<>> ELSE <<cur>>) \o FindAllDigits(s, i + 1, <<>>)

RECURSIVE StripZeros(_)
StripZeros(g) == IF g # <<>> /\ Head(g) = "0" THEN StripZeros(Tail(g)) ELSE g

RECURSIVE DigitsValue(_)
\* int(g) for a run of decimal digits short enough not to overflow here
DigitsValue(g) == IF g = <<>> THEN 0 ELSE 10 * DigitsValue(SubSeq(g, 1, Len(g) - 1)) + IntOfChar(g[Len(g)])

\* int(g) > 2^31 - 1 = 2147483647
ExceedsCInt(g) ==
    LET sig == StripZeros(g)
    IN \/ Len(sig) > 10
       \/ /\ Len(sig) = 10
          /\ \/ DigitsValue(SubSeq(sig, 1, 9)) > 214748364
             \/ (DigitsValue(SubSeq(sig, 1, 9)) = 214748364 /\ IntOfChar(sig[10]) > 7)

\* int(g); a number of ten or more digits is stood for by 10^9, which every
\* comparison made on it (y < 100, the ranges of date()) treats alike
IntOfDigits(g) ==
    LET sig == StripZeros(g)
    IN IF Len(sig) > 9 THEN 1000000000 ELSE DigitsValue(sig)

SENTINEL_UPPER == Upper(SENTINEL)

\* the DOB comparison of _rule_cross_check is reached with three numbers
VizDobCompared(f, m) ==
    LET viz_dob == Strip(Get(f, "date_of_birth"))
    IN /\ viz_dob # <<>> /\ viz_dob \notin {SENTINEL_UPPER, <<>>} /\ m.date_of_birth # <<>>
       /\ parse_mrz_date(m.date_of_birth) # None
       /\ Len(FindAllDigits(viz_dob, 1, <<>>)) >= 3

\* y after "if y < 100: y = 2000 + y if y < 30 else 1900 + y"
VizYear(y) == IF y < 100 THEN CenturyYear(y) ELSE y

\* _rule_cross_check raises: date(y, m, d) raises OverflowError, which the
\* except (ValueError, TypeError) around it does not catch
rule_cross_check_raises(f, m) ==
    /\ ~(not_mrz(m) \/ ~m.is_valid_format)
    /\ VizDobCompared(f, m)
    /\ LET dob_nums == FindAllDigits(Strip(Get(f, "date_of_birth")), 1, <<>>)
       IN \E k \in 1..3 : ExceedsCInt(dob_nums[k])

\* the DOB part of _rule_cross_check
CrossCheckDob(f, m) ==
    IF ~VizDobCompared(f, m) THEN <<>>
    ELSE LET dob_nums == FindAllDigits(Strip(Get(f, "date_of_birth")), 1, <<>>)
             d == IntOfDigits(dob_nums[1])
             mo == IntOfDigits(dob_nums[2])
             y == VizYear(IntOfDigits(dob_nums[3]))
         IN IF DateRaisesValueError(y, mo, d) THEN <<>>
            ELSE When(date(y, mo, d) # parse_mrz_date(m.date_of_birth), "CRITICAL", "DOB mismatch")

\* _rule_cross_check when it returns
rule_cross_check(f, m) ==
    IF not_mrz(m) \/ ~m.is_valid_format THEN <<>>
    ELSE LET viz_doc == Upper(RemoveChar(Strip(Get(f, "document_number")), " "))
             mrz_doc == Upper(RemoveChar(m.document_number, "<"))
             viz_name == Upper(Strip(Get(f, "primary_identifier")))
             mrz_name == Upper(m.primary_identifier)
             viz_sex == Upper(Strip(Get(f, "sex")))
         IN When(viz_doc # <<>> /\ viz_doc \notin {SENTINEL_UPPER, <<>>} /\ mrz_doc # <<>>
                 /\ viz_doc # mrz_doc, "CRITICAL", "Doc# mismatch")
            \o When(viz_name # <<>> /\ viz_name \notin {SENTINEL_UPPER, <<>>} /\ mrz_name # <<>>
                    /\ Slice(viz_name, 0, 3) # Slice(mrz_name, 0, 3), "HIGH", "Surname mismatch")
            \o When(viz_sex # <<>> /\ viz_sex \notin {SENTINEL_UPPER, <<>>} /\ m.sex # <<>>
                    /\ viz_sex[1] # m.sex[1], "HIGH", "Sex mismatch")
            \o CrossCheckDob(f, m)

-----------------------------------------------------------------------------
(* PassportRulesEngine.                                                    *)

\* self._rules: (rule_id, rule_name) in catalog order; rule_fn is RuleFn below
RULES ==
    << <<"MRZ_FORMAT", "MRZ Format Validation">>,
       <<"DOC_NUM_CHECK", "Document Number Checksum">>,
       <<"DOB_CHECK", "Date of Birth Checksum">>,
       <<"DOE_CHECK", "Date of Expiry Checksum">>,
       <<"PN_CHECK", "Personal Number Checksum">>,
       <<"COMPOSITE_CHECK", "Composite Checksum">>,
       <<"COUNTRY_CODE", "Country Code Validation">>,
       <<"DATE_PLAUSIBILITY", "Date Plausibility">>,
       <<"REQUIRED_FIELDS", "Required Fields Presence">>,
       <<"CROSS_CHECK", "VIZ <-> MRZ Cross-Check">> >>

\* rule_fn(fields, mrz) of the i-th catalog entry raises
RuleRaises(i, f, m, t) == i = 10 /\ rule_cross_check_raises(f, m)

\* rule_fn(fields, mrz) of the i-th catalog entry, when it returns
RuleFn(i, f, m, t) ==
    CASE i = 1 -> rule_mrz_format(f, m)
      [] i = 2 -> rule_doc_number_check(f, m)
      [] i = 3 -> rule_dob_check(f, m)
      [] i = 4 -> rule_doe_check(f, m)
      [] i = 5 -> rule_personal_number_check(f, m)
      [] i = 6 -> rule_composite_check(f, m)
      [] i = 7 -> rule_country_code(f, m)
      [] i = 8 -> rule_date_plausibility(f, m, t)
      [] i = 9 -> rule_required_fields(f, m)
      [] i = 10 -> rule_cross_check(f, m)

RuleViolation(rule_id, rule_name, severity, detail) ==
    [rule_id |-> rule_id, rule_name |-> rule_name, severity |-> severity, detail |-> detail]

\* the inner for loop of apply: one RuleViolation per returned pair
Wrap(i, rule_violations) ==
    [k \in DOMAIN rule_violations |->
        RuleViolation(RULES[i][1], RULES[i][2], rule_violations[k].severity, rule_violations[k].detail)]

\* sev_weights.get(severity, 0), doubled so that LOW = 0.5 is a whole number
SevWeight2(severity) ==
    CASE severity = "CRITICAL" -> 6
      [] severity = "HIGH" -> 4
      [] severity = "MEDIUM" -> 2
      [] severity = "LOW" -> 1
      [] OTHER -> 0

RECURSIVE TotalWeight2(_)
\* 2 * sum(sev_weights.get(v.severity, 0) for v in violations)
TotalWeight2(vs) == IF vs = <<>> THEN 0 ELSE SevWeight2(Head(vs).severity) + TotalWeight2(Tail(vs))

\* risk_score without the cap at 1.0
RiskScore30_uncapped(vs) == TotalWeight2(vs)

\* risk_score = min(1.0, total_weight / 15.0), as the numerator n of n / 30
RiskScore30(vs) == Min(30, TotalWeight2(vs))

\* the if / elif chain with > for >=
RiskLevel_strict(n) ==
    IF 10 * n > 7 * 30 THEN "CRITICAL"
    ELSE IF 10 * n > 4 * 30 THEN "HIGH"
    ELSE IF 10 * n > 2 * 30 THEN "MEDIUM"
    ELSE "LOW"

\* the if / elif chain on risk_score (n / 30 >= 0.7 is 10 n >= 210, and so on; the
\* float quotient w / 15.0 of a multiple w of 0.5 compares with 0.7, 0.4 and 0.2
\* as the exact quotient does)
RiskLevel(n) ==
    IF 10 * n >= 7 * 30 THEN "CRITICAL"
    ELSE IF 10 * n >= 4 * 30 THEN "HIGH"
    ELSE IF 10 * n >= 2 * 30 THEN "MEDIUM"
    ELSE "LOW"

\* round(risk_score, 3) in thousandths: n / 30 is never half-way between two
\* thousandths, so rounding is to the nearest
Round3(n) == (200 * n + 3) \div 6

RulesResult(vs, failed) ==
    [rules_passed |-> Len(RULES) - Cardinality(failed),
     rules_failed |-> Cardinality(failed),
     rules_total |-> Len(RULES),
     violations |-> vs,
     risk_score |-> Round3(RiskScore30(vs)),
     risk_level |-> RiskLevel(RiskScore30(vs)),
     rules_version |-> "passport-v1.0"]

\* apply, lines 183-188: parse the MRZ when both lines are present
ParseMRZ ==
    /\ pc = "parse"
    /\ LET l1 == Get(fields, "mrz_upper_line")
           l2 == Get(fields, "mrz_lower_line")
       IN IF l1 # <<>> /\ l2 # <<>>
          THEN IF parse_mrz_td3_raises(l1, l2)
               THEN /\ pc' = "raised"
                    /\ UNCHANGED mrz
               ELSE /\ pc' = "rules"
                    /\ mrz' = parse_mrz_td3(l1, l2)
          ELSE /\ pc' = "rules"
               /\ mrz' = None
    /\ UNCHANGED <<analysis, base, fields, today, rule_index, violations, rules_failed_set, result, call, ret, self_rules, second>>

\* the loop without its try / except: a raising rule ends apply
RunRule_fault_aborts ==
    /\ pc = "rules"
    /\ IF RuleRaises(rule_index, fields, mrz, today)
       THEN /\ pc' = "raised"
            /\ UNCHANGED <<violations, rules_failed_set, rule_index>>
       ELSE LET rule_violations == RuleFn(rule_index, fields, mrz, today)
            IN /\ violations' = violations \o Wrap(rule_index, rule_violations)
               /\ rules_failed_set' =
                      IF rule_violations # <<>> THEN rules_failed_set \cup {RULES[rule_index][1]}
                      ELSE rules_failed_set
               /\ rule_index' = rule_index + 1
               /\ pc' = IF rule_index = Len(RULES) THEN "aggregate" ELSE "rules"
    /\ UNCHANGED <<analysis, base, fields, today, mrz, result, call, ret, self_rules, second>>

\* the loop putting a rule's violations in front of the list
RunRule_prepends ==
    /\ pc = "rules"
    /\ IF RuleRaises(rule_index, fields, mrz, today)
       THEN /\ violations' = <<RuleViolation(RULES[rule_index][1], RULES[rule_index][2], "LOW", "Rule execution error")>>
                              \o violations
            /\ UNCHANGED rules_failed_set
       ELSE LET rule_violations == RuleFn(rule_index, fields, mrz, today)
            IN /\ violations' = Wrap(rule_index, rule_violations) \o violations
               /\ rules_failed_set' =
                      IF rule_violations # <<>> THEN rules_failed_set \cup {RULES[rule_index][1]}
                      ELSE rules_failed_set
    /\ rule_index' = rule_index + 1
    /\ pc' = IF rule_index = Len(self_rules) THEN "aggregate" ELSE "rules"
    /\ UNCHANGED <<analysis, base, fields, today, mrz, result, call, ret, self_rules, second>>

\* apply, lines 193-210: one iteration of the loop over self._rules
RunRule ==
    /\ pc = "rules"
    /\ IF RuleRaises(rule_index, fields, mrz, today)
       THEN /\ violations' = Append(violations,
                   RuleViolation(RULES[rule_index][1], RULES[rule_index][2], "LOW", "Rule execution error"))
            /\ UNCHANGED rules_failed_set
       ELSE LET rule_violations == RuleFn(rule_index, fields, mrz, today)
            IN /\ violations' = violations \o Wrap(rule_index, rule_violations)
               /\ rules_failed_set' =
                      IF rule_violations # <<>> THEN rules_failed_set \cup {RULES[rule_index][1]}
                      ELSE rules_failed_set
    /\ rule_index' = rule_index + 1
    /\ pc' = IF rule_index = Len(self_rules) THEN "aggregate" ELSE "rules"
    /\ UNCHANGED <<analysis, base, fields, today, mrz, result, call, ret, self_rules, second>>

\* apply, lines 212-238: counts, risk score, risk level, return
Aggregate ==
    /\ pc = "aggregate"
    /\ result' = RulesResult(violations, rules_failed_set)
    /\ pc' = "done"
    /\ UNCHANGED <<analysis, base, fields, today, rule_index, mrz, violations, rules_failed_set, call, ret, self_rules, second>>

Next == ParseMRZ \/ RunRule \/ Aggregate

-----------------------------------------------------------------------------
(* simulate_fraud.py: the MRZ builder and the digit-swap tamper.           *)

\* str(n) for a digit n
DigitStr(n) == <<DigitChars[n + 1]>>

build_mrz_line2(doc_num, nationality, dob_yymmdd, sex, doe_yymmdd, personal) ==
    LET doc == LJustCut(doc_num, 9, "<")
        dc1 == DigitStr(mrz_check_digit(doc))
        nat == LJustCut(nationality, 3, "<")
        dc2 == DigitStr(mrz_check_digit(dob_yymmdd))
        dc3 == DigitStr(mrz_check_digit(doe_yymmdd))
        pers == LJustCut(personal, 14, "<")
        dc4 == DigitStr(mrz_check_digit(pers))
        line2_no_composite == doc \o dc1 \o nat \o dob_yymmdd \o dc2 \o sex \o doe_yymmdd \o dc3 \o pers \o dc4
        composite_data == Slice(line2_no_composite, 0, 10) \o Slice(line2_no_composite, 13, 20)
                          \o Slice(line2_no_composite, 21, 43)
        dc5 == DigitStr(mrz_check_digit(composite_data))
    IN line2_no_composite \o dc5

\* fraud_mrz_digit_swap, lines 87-90: the digit at pos becomes (old + delta) % 10
digit_swap(line2, pos, delta) ==
    [line2 EXCEPT ![pos + 1] = DigitChars[((IntOfChar(line2[pos + 1]) + delta) % 10) + 1]]

\* fraud_expired_doc: line 2 rebuilt, with fresh check digits, around another
\* expiry date (the script's own is "200101"). The keys date_of_expiry,
\* _fraud_type and _expected_rules it also writes are read by no rule.
fraud_expired_doc(f, doe_yymmdd) ==
    LET line2 == f["mrz_lower_line"]
    IN [f EXCEPT !["mrz_lower_line"] =
            build_mrz_line2(Slice(line2, 0, 9), Slice(line2, 10, 13), Slice(line2, 13, 19),
                            Slice(line2, 20, 21), doe_yymmdd, Slice(line2, 28, 42))]

\* fraud_invalid_country: columns 10..12 of line 2 become another code (the
\* script's own is "XXX"); no check digit is recomputed
fraud_invalid_country(f, code) ==
    LET line2 == f["mrz_lower_line"]
    IN [f EXCEPT !["mrz_lower_line"] = Slice(line2, 0, 10) \o code \o SliceFrom(line2, 13)]

\* fraud_future_dob: line 2 rebuilt, with fresh check digits, around another birth
\* date (the script's own is "350101"), and the VIZ birth date set to that day of
\* the 2000s (the script's own is "01.01.2035")
fraud_future_dob(f, dob_yymmdd) ==
    LET line2 == f["mrz_lower_line"]
        rebuilt == build_mrz_line2(Slice(line2, 0, 9), Slice(line2, 10, 13), dob_yymmdd,
                                   Slice(line2, 20, 21), Slice(line2, 21, 27), Slice(line2, 28, 42))
        viz == Slice(dob_yymmdd, 4, 6) \o <<".">> \o Slice(dob_yymmdd, 2, 4) \o <<".", "2", "0">>
               \o Slice(dob_yymmdd, 0, 2)
    IN [k \in DOMAIN f \cup {"date_of_birth"} |->
            CASE k = "mrz_lower_line" -> rebuilt
              [] k = "date_of_birth" -> viz
              [] OTHER -> f[k]]

-----------------------------------------------------------------------------
(* Inputs.                                                                 *)

FieldNames == {"mrz_upper_line", "mrz_lower_line", "document_number", "primary_identifier", "sex", "date_of_birth"}

\* a field map from options: <<>> leaves the key out, <<v>> sets it to v
MkFields(o) == [k \in {n \in DOMAIN o : o[n] # <<>>} |-> o[k][1]]

\* REAL_AZE of simulate_fraud.py (line 1 as the OCR read it, with C for the filler)
AZE_LINE1 == <<"P","C","A","Z","E","K","A","L","K","A","N","<","<","F","I","M","A","R">> \o Rep("<", 26)
AZE_DOC == <<"C","0","9","2","5","5","5","9","2">>
AZE_DOB == <<"5","9","1","0","0","5">>
AZE_DOE == <<"2","6","1","1","2","3">>
AZE_PN == <<"2","9","1","0","8","E","0">>
AZE_LINE2 == AZE_DOC \o <<"1">> \o <<"A","Z","E">> \o AZE_DOB \o <<"8">> \o <<"F">> \o AZE_DOE \o <<"9">>
             \o AZE_PN \o Rep("<", 7) \o <<"0", "8">>
AZE_VIZ_NAME == <<"K","A","L","K","A","N">>
AZE_VIZ_DOB == <<"0","5",".","1","0",".","1","9","5","9">>

\* REAL_SRB of simulate_fraud.py
SRB_DOC == <<"1","8","9","1","8","5","8","3","3">>
SRB_DOB == <<"7","5","1","2","1","9">>
SRB_PN == <<"1","2","9","7","5","8","0","4","6","4","9">>


\* s with the character at column k (0-based) replaced by c
SetCol(s, k, c) == [s EXCEPT ![k + 1] = c]

\* s with c inserted before column k (0-based)
InsertCol(s, k, c) == SubSeq(s, 1, k) \o <<c>> \o SubSeq(s, k + 1, Len(s))

\* line 1 of the same passport with the filler read correctly
AZE_LINE1_FILLER == SetCol(AZE_LINE1, 1, "<")

\* mrz_upper_line: absent, empty, REAL_AZE, REAL_AZE with its filler, too short, not
\* starting with P, the sentinel
Line1Inputs ==
    {<<>>, << <<>> >>, <<AZE_LINE1>>, <<AZE_LINE1_FILLER>>, <<Slice(AZE_LINE1, 0, 11)>>,
     <<SetCol(AZE_LINE1, 0, "X")>>, <<SENTINEL>>}

\* mrz_lower_line: absent, REAL_AZE, U+00B2 for the document-number check digit, a
\* letter for the DOB check digit, truncated to 30 and to 43 characters, one digit
\* swapped, an unknown nationality, an embedded space, 39 characters with an embedded
\* space, REAL_SRB rebuilt
Line2Inputs ==
    {<<>>, <<AZE_LINE2>>, <<SetCol(AZE_LINE2, 9, "sup2")>>, <<SetCol(AZE_LINE2, 19, "A")>>,
     <<Slice(AZE_LINE2, 0, 30)>>, <<Slice(AZE_LINE2, 0, 43)>>, <<digit_swap(AZE_LINE2, 3, 1)>>,
     <<SetCol(SetCol(SetCol(AZE_LINE2, 10, "X"), 11, "X"), 12, "X")>>,
     <<InsertCol(AZE_LINE2, 5, " ")>>, <<InsertCol(Slice(AZE_LINE2, 0, 39), 5, " ")>>,
     <<build_mrz_line2(SRB_DOC, <<"S","R","B">>, SRB_DOB, <<"M">>, <<"2","6","0","1","1","3">>, SRB_PN)>>}

\* the VIZ fields: none, REAL_AZE, another surname, the sentinel everywhere, a birth
\* year beyond a C int, everything different, an impossible day, a two-digit year,
\* everything different with a birth year beyond a C int
VizInputs ==
    {[document_number |-> <<>>, primary_identifier |-> <<>>, sex |-> <<>>, date_of_birth |-> <<>>],
     [document_number |-> <<AZE_DOC>>, primary_identifier |-> <<AZE_VIZ_NAME>>, sex |-> <<<<"F">>>>,
      date_of_birth |-> <<AZE_VIZ_DOB>>],
     [document_number |-> <<AZE_DOC>>, primary_identifier |-> <<<<"S","M","I","T","H">>>>, sex |-> <<<<"F">>>>,
      date_of_birth |-> <<AZE_VIZ_DOB>>],
     [document_number |-> <<SENTINEL>>, primary_identifier |-> <<SENTINEL>>, sex |-> <<SENTINEL>>,
      date_of_birth |-> <<SENTINEL>>],
     [document_number |-> <<AZE_DOC>>, primary_identifier |-> <<AZE_VIZ_NAME>>, sex |-> <<<<"F">>>>,
      date_of_birth |-> <<<<"0","5",".","1","0",".","9","9","9","9","9","9","9","9","9","9","9">>>>],
     [document_number |-> <<<<"X","1","2","3","4">>>>, primary_identifier |-> <<<<"S","M","I","T","H">>>>, sex |-> <<<<"M">>>>,
      date_of_birth |-> <<<<"0","1",".","0","1",".","2","0","0","0">>>>],
     [document_number |-> <<AZE_DOC>>, primary_identifier |-> <<<<"k","a","l">>>>, sex |-> <<<<"f">>>>,
      date_of_birth |-> <<<<"3","1",".","0","2",".","1","9","5","9">>>>],
     [document_number |-> <<<<"c","0","9","2"," ","5","5","5","9","2">>>>, primary_identifier |-> <<AZE_VIZ_NAME>>, sex |-> <<>>,
      date_of_birth |-> <<<<"0","5",".","1","0",".","5","9">>>>],
     [document_number |-> <<<<"X","1","2","3","4">>>>, primary_identifier |-> <<<<"S","M","I","T","H">>>>, sex |-> <<<<"M">>>>,
      date_of_birth |-> <<<<"0","5",".","1","0",".","9","9","9","9","9","9","9","9","9","9","9">>>>]}

\* the valid AZE scenario: the MRZ pair of the passport with its matching VIZ fields
AzeScenario ==
    MkFields([mrz_upper_line |-> <<AZE_LINE1_FILLER>>, mrz_lower_line |-> <<AZE_LINE2>>,
              document_number |-> <<AZE_DOC>>, primary_identifier |-> <<AZE_VIZ_NAME>>,
              sex |-> <<<<"F">>>>, date_of_birth |-> <<AZE_VIZ_DOB>>])

\* date.today(): before and after the expiry date of REAL_AZE
Todays == {<<2026, 11, 5>>, <<2030, 1, 1>>}

\* no second call is made
NoCall == [pc |-> "idle"]

\* the state in which apply(f) starts on a newly constructed engine
ApplyStarts(f) ==
    /\ self_rules = RULES
    /\ fields = f
    /\ pc = "parse"
    /\ rule_index = 1
    /\ mrz = None
    /\ violations = <<>>
    /\ rules_failed_set = {}
    /\ result = None
    /\ call = [fn |-> "apply"]
    /\ ret = [kind |-> "none"]

\* engine.apply(data) on damaged and intact field maps
Init ==
    /\ \E l1 \in Line1Inputs, l2 \in Line2Inputs, viz \in VizInputs :
           ApplyStarts(MkFields([mrz_upper_line |-> l1, mrz_lower_line |-> l2] @@ viz))
    /\ base = fields
    /\ today \in Todays
    /\ second = NoCall
    /\ analysis = None

Spec == Init /\ [][Next]_vars

\* the lines 2 that build_mrz_line2 assembles
BuiltLines ==
    {build_mrz_line2(doc, nat, dob, sex, doe, pn) :
        doc \in {AZE_DOC, SRB_DOC, <<"A","B">>},
        nat \in {<<"A","Z","E">>, <<"X","X","X">>},
        dob \in {AZE_DOB, SRB_DOB},
        sex \in {<<"F">>, <<"<">>},
        doe \in {AZE_DOE, <<"2","0","0","1","0","1">>},
        pn \in {<<>>, AZE_PN, SRB_PN}}

\* engine.apply on an MRZ pair built with correct check digits
InitRoundTrip ==
    /\ \E l2 \in BuiltLines, viz \in {<<>>, <<AZE_DOC>>} :
           ApplyStarts(MkFields([mrz_upper_line |-> <<AZE_LINE1>>, mrz_lower_line |-> <<l2>>,
                                 document_number |-> viz]))
    /\ base = fields
    /\ today \in Todays
    /\ second = NoCall
    /\ analysis = None

SpecRoundTrip == InitRoundTrip /\ [][Next]_vars

TamperBases ==
    {build_mrz_line2(doc, <<"A","Z","E">>, dob, <<"F">>, AZE_DOE, AZE_PN) :
        doc \in {AZE_DOC, SRB_DOC}, dob \in {AZE_DOB, SRB_DOB}}

\* the columns of the document number, the DOB and the DOE
TamperColumns == (0..8) \cup (13..18) \cup (21..26)

\* engine.apply on a variant with one digit of line 2 swapped
InitTamper ==
    /\ \E b \in TamperBases, pos \in TamperColumns, delta \in 1..9 :
           /\ IsDecimalChar(b[pos + 1])
           /\ base = MkFields([mrz_upper_line |-> <<AZE_LINE1>>, mrz_lower_line |-> <<b>>])
           /\ ApplyStarts(MkFields([mrz_upper_line |-> <<AZE_LINE1>>,
                                    mrz_lower_line |-> <<digit_swap(b, pos, delta)>>]))
    /\ today = <<2026, 11, 5>>
    /\ second = NoCall
    /\ analysis = None

SpecTamper == InitTamper /\ [][Next]_vars

\* the documents the generators start from: REAL_AZE with its VIZ fields and the
\* MRZ pair of a rebuilt line 2
RebuiltBases ==
    {AzeScenario,
     MkFields([mrz_upper_line |-> <<AZE_LINE1_FILLER>>,
               mrz_lower_line |-> <<build_mrz_line2(SRB_DOC, <<"S","R","B">>, SRB_DOB, <<"M">>, AZE_DOE, SRB_PN)>>])}

\* nationality codes written over columns 10..12
RebuiltCodes ==
    {<<"X","X","X">>, <<"Z","Z","Z">>, <<"X","<","<">>, <<"<","<","<">>, <<"G","R","C">>, <<"X"," ","X">>}

\* birth dates rebuilt into line 2: the script's own first, 30 February last
RebuiltDobs ==
    {<<"3","5","0","1","0","1">>, <<"2","9","0","1","0","1">>, <<"3","0","0","1","0","1">>,
     <<"2","6","1","1","0","5">>, <<"2","6","1","1","0","6">>, <<"0","0","0","1","0","1">>,
     <<"9","9","0","2","3","0">>}

\* expiry dates rebuilt into line 2: the script's own first, 31 June last
RebuiltDoes ==
    {<<"2","0","0","1","0","1">>, <<"2","9","1","2","3","1">>, <<"3","0","0","1","0","1">>,
     <<"9","9","1","2","3","1">>, <<"2","6","1","1","0","5">>, <<"2","6","1","1","0","4">>,
     <<"0","0","0","6","3","1">>}

\* date.today() on the days the age and expiry limits fall between
RebuiltTodays ==
    {<<2000, 1, 1>>, <<2014, 12, 31>>, <<2015, 1, 1>>, <<2026, 11, 5>>, <<2080, 6, 1>>, <<2180, 1, 2>>}

\* engine.apply on a variant of simulate_fraud.py: one of fraud_invalid_country,
\* fraud_future_dob and fraud_expired_doc over a valid document
InitRebuilt ==
    /\ base \in RebuiltBases
    /\ \E f \in {fraud_invalid_country(base, code) : code \in RebuiltCodes}
                 \cup {fraud_future_dob(base, dob) : dob \in RebuiltDobs}
                 \cup {fraud_expired_doc(base, doe) : doe \in RebuiltDoes} :
           ApplyStarts(f)
    /\ today \in RebuiltTodays
    /\ second = NoCall
    /\ analysis = None

SpecRebuilt == InitRebuilt /\ [][Next]_vars

-----------------------------------------------------------------------------
(* HybridOCREngine.extract, step 4: the fields built from the two cleaned   *)
(* MRZ lines, which apply receives as OCRResult.fields.                     *)

RECURSIVE DecimalStr(_)
\* str(n) for n >= 0
DecimalStr(n) == IF n < 10 THEN DigitStr(n) ELSE DecimalStr(n \div 10) \o DigitStr(n % 10)

\* _format_date raises: int(yymmdd[:2]) does, on a string isdigit() accepts
format_date_raises(yymmdd) ==
    /\ Len(yymmdd) = 6
    /\ \A i \in DOMAIN yymmdd : IsDigitChar(yymmdd[i])
    /\ \E i \in 1..2 : IntOfCharRaises(yymmdd[i])

\* _format_date: YYMMDD to DD.MM.YYYY
format_date(yymmdd) ==
    IF Len(yymmdd) # 6 \/ \E i \in DOMAIN yymmdd : ~IsDigitChar(yymmdd[i]) THEN yymmdd
    ELSE LET yy == Int2(Slice(yymmdd, 0, 2))
             mm == Slice(yymmdd, 2, 4)
             dd == Slice(yymmdd, 4, 6)
             year == IF yy < 30 THEN 2000 + yy ELSE 1900 + yy
         IN dd \o <<".">> \o mm \o <<".">> \o DecimalStr(year)

\* the state in which extract has read the two MRZ lines
ExtractStarts(mrz_upper, mrz_lower) ==
    /\ self_rules = RULES
    /\ fields = <<>>
    /\ pc = "extract"
    /\ rule_index = 1
    /\ mrz = None
    /\ violations = <<>>
    /\ rules_failed_set = {}
    /\ result = None
    /\ call = [fn |-> "extract", mrz_upper |-> mrz_upper, mrz_lower |-> mrz_lower]
    /\ ret = [kind |-> "none"]

\* extract, lines 83-136, and the field list made a dict by apply, lines 169-175
Extract ==
    /\ pc = "extract"
    /\ LET mrz_upper == call.mrz_upper
           mrz_lower == call.mrz_lower
           has_names == mrz_upper # <<>> /\ Len(mrz_upper) >= 40
           rest == SliceFrom(mrz_upper, 5)
           primary == Strip(ReplaceChar(SplitFirst(rest), "<", " "))
           secondary == IF FirstSep(rest) = 0 THEN <<>> ELSE Strip(ReplaceChar(SplitSecond(rest), "<", " "))
           has_fields == mrz_lower # <<>> /\ Len(mrz_lower) >= 28
           dob_raw == Slice(mrz_lower, 13, 19)
           doe_raw == Slice(mrz_lower, 21, 27)
       IN IF has_fields /\ (format_date_raises(dob_raw) \/ format_date_raises(doe_raw))
          THEN /\ pc' = "raised"
               /\ UNCHANGED fields
          ELSE /\ pc' = "parse"
               /\ fields' = MkFields(
                      [mrz_upper_line |-> IF mrz_upper # <<>> THEN <<mrz_upper>> ELSE <<>>,
                       primary_identifier |-> IF has_names THEN <<primary>> ELSE <<>>,
                       secondary_identifier |-> IF has_names /\ secondary # <<>> THEN <<secondary>> ELSE <<>>,
                       issuing_country |-> IF has_names THEN <<Slice(mrz_upper, 2, 5)>> ELSE <<>>,
                       mrz_lower_line |-> IF mrz_lower # <<>> THEN <<mrz_lower>> ELSE <<>>,
                       document_number |-> IF has_fields THEN <<RemoveChar(Slice(mrz_lower, 0, 9), "<")>> ELSE <<>>,
                       nationality |-> IF has_fields THEN <<Slice(mrz_lower, 10, 13)>> ELSE <<>>,
                       date_of_birth |-> IF has_fields THEN <<format_date(dob_raw)>> ELSE <<>>,
                       sex |-> IF has_fields THEN <<Slice(mrz_lower, 20, 21)>> ELSE <<>>,
                       date_of_expiry |-> IF has_fields THEN <<format_date(doe_raw)>> ELSE <<>>])
    /\ UNCHANGED <<analysis, base, today, rule_index, mrz, violations, rules_failed_set, result, call, ret, self_rules, second>>

\* birth dates in YYMMDD: both sides of the century boundary, leap days, the ends
\* of the range, and a day no calendar has
FormatDobs ==
    {<<"0","5","0","1","0","1">>, <<"7","5","0","1","0","1">>, <<"0","0","0","2","2","9">>,
     <<"2","9","0","2","2","8">>, <<"3","0","0","1","0","1">>, <<"9","9","1","2","3","1">>,
     AZE_DOB, <<"9","9","0","2","3","0">>}

\* a birth date as DD.MM.YY
ShortYearViz(yymmdd) == Slice(yymmdd, 4, 6) \o <<".">> \o Slice(yymmdd, 2, 4) \o <<".">> \o Slice(yymmdd, 0, 2)

\* the OCR engine hands apply the fields it built from an MRZ pair, or apply gets
\* the pair with a VIZ birth date written with a two-digit year
InitExtract ==
    /\ \E dob \in FormatDobs, cut \in {27, 44} :
           LET l2 == Slice(build_mrz_line2(AZE_DOC, <<"A","Z","E">>, dob, <<"F">>, AZE_DOE, AZE_PN), 0, cut)
           IN \/ ExtractStarts(AZE_LINE1_FILLER, l2)
              \/ ApplyStarts(MkFields([mrz_upper_line |-> <<AZE_LINE1_FILLER>>, mrz_lower_line |-> <<l2>>,
                                       date_of_birth |-> <<ShortYearViz(dob)>>]))
    /\ base = fields
    /\ today \in Todays
    /\ second = NoCall
    /\ analysis = None

NextExtract == Extract \/ ParseMRZ \/ RunRule \/ Aggregate

SpecExtract == InitExtract /\ [][NextExtract]_vars

-----------------------------------------------------------------------------
(* A second call of apply on the same engine instance. Its arguments and    *)
(* locals are those of its own frame; it shares self._rules with the first. *)

\* the frame of a call apply(f) that starts when date.today() is t
CallStarts(f, t) ==
    [fields |-> f, today |-> t, pc |-> "parse", rule_index |-> 1, mrz |-> None,
     violations |-> <<>>, rules_failed_set |-> {}, result |-> None]

\* apply, lines 183-188, in the second call
SecondParseMRZ ==
    /\ second.pc = "parse"
    /\ LET l1 == Get(second.fields, "mrz_upper_line")
           l2 == Get(second.fields, "mrz_lower_line")
       IN second' = IF l1 # <<>> /\ l2 # <<>>
                    THEN IF parse_mrz_td3_raises(l1, l2)
                         THEN [second EXCEPT !.pc = "raised"]
                         ELSE [second EXCEPT !.pc = "rules", !.mrz = parse_mrz_td3(l1, l2)]
                    ELSE [second EXCEPT !.pc = "rules", !.mrz = None]
    /\ UNCHANGED <<analysis, base, fields, today, pc, rule_index, mrz, violations, rules_failed_set, result, call, ret,
                   self_rules>>

\* the loop of the second call if the violation list were the engine's and not the call's
SecondRunRule_shared_violations ==
    /\ second.pc = "rules"
    /\ LET i == second.rule_index
       IN /\ violations' =
                 IF RuleRaises(i, second.fields, second.mrz, second.today)
                 THEN Append(violations, RuleViolation(RULES[i][1], RULES[i][2], "LOW", "Rule execution error"))
                 ELSE violations \o Wrap(i, RuleFn(i, second.fields, second.mrz, second.today))
          /\ second' = [second EXCEPT !.rule_index = i + 1,
                                      !.pc = IF i = Len(self_rules) THEN "aggregate" ELSE "rules"]
    /\ UNCHANGED <<analysis, base, fields, today, pc, rule_index, mrz, rules_failed_set, result, call, ret, self_rules>>

\* apply, lines 193-210, in the second call
SecondRunRule ==
    /\ second.pc = "rules"
    /\ LET i == second.rule_index
       IN second' =
             IF RuleRaises(i, second.fields, second.mrz, second.today)
             THEN [second EXCEPT
                      !.violations = Append(@, RuleViolation(RULES[i][1], RULES[i][2], "LOW", "Rule execution error")),
                      !.rule_index = i + 1,
                      !.pc = IF i = Len(self_rules) THEN "aggregate" ELSE "rules"]
             ELSE LET rule_violations == RuleFn(i, second.fields, second.mrz, second.today)
                  IN [second EXCEPT
                         !.violations = @ \o Wrap(i, rule_violations),
                         !.rules_failed_set = IF rule_violations # <<>> THEN @ \cup {RULES[i][1]} ELSE @,
                         !.rule_index = i + 1,
                         !.pc = IF i = Len(self_rules) THEN "aggregate" ELSE "rules"]
    /\ UNCHANGED <<analysis, base, fields, today, pc, rule_index, mrz, violations, rules_failed_set, result, call, ret,
                   self_rules>>

\* apply, lines 212-238, in the second call
SecondAggregate ==
    /\ second.pc = "aggregate"
    /\ second' = [second EXCEPT !.result = RulesResult(second.violations, second.rules_failed_set),
                                !.pc = "done"]
    /\ UNCHANGED <<analysis, base, fields, today, pc, rule_index, mrz, violations, rules_failed_set, result, call, ret,
                   self_rules>>

\* the same field map is handed to apply again, now or on a later day
CallAgain ==
    /\ pc = "done"
    /\ second.pc = "idle"
    /\ \E t \in Todays : ~DateGT(today, t) /\ second' = CallStarts(fields, t)
    /\ UNCHANGED <<analysis, base, fields, today, pc, rule_index, mrz, violations, rules_failed_set, result, call, ret,
                   self_rules>>

NextRerun == ParseMRZ \/ RunRule \/ Aggregate \/ CallAgain \/ SecondParseMRZ \/ SecondRunRule \/ SecondAggregate

\* apply twice, one call after the other, on each field map of Init
SpecRerun == Init /\ [][NextRerun]_vars

\* field maps of concurrent requests: REAL_AZE intact, nothing, a swapped digit with
\* a birth year beyond a C int, a line 2 the parser fails on, a short line 1
ConcurrentInputs ==
    {AzeScenario,
     MkFields([mrz_upper_line |-> <<>>]),
     MkFields([mrz_upper_line |-> <<AZE_LINE1>>, mrz_lower_line |-> <<digit_swap(AZE_LINE2, 3, 1)>>,
               primary_identifier |-> <<<<"S","M","I","T","H">>>>,
               date_of_birth |-> <<<<"0","5",".","1","0",".","9","9","9","9","9","9","9","9","9","9","9">>>>]),
     MkFields([mrz_upper_line |-> <<AZE_LINE1>>, mrz_lower_line |-> <<SetCol(AZE_LINE2, 9, "sup2")>>]),
     MkFields([mrz_upper_line |-> <<Slice(AZE_LINE1, 0, 11)>>, mrz_lower_line |-> <<AZE_LINE2>>,
               document_number |-> <<SENTINEL>>])}

\* two requests reach the one engine instance at the same time
InitConcurrent ==
    /\ \E f1 \in ConcurrentInputs, f2 \in ConcurrentInputs, t \in Todays :
           /\ ApplyStarts(f1)
           /\ today = t
           /\ second = CallStarts(f2, t)
           /\ analysis = None
    /\ base = fields

NextConcurrent == ParseMRZ \/ RunRule \/ Aggregate \/ SecondParseMRZ \/ SecondRunRule \/ SecondAggregate

SpecConcurrent == InitConcurrent /\ [][NextConcurrent]_vars

\* the field map f with key k set to v
WithField(f, k, v) == [n \in DOMAIN f \cup {k} |-> IF n = k THEN v ELSE f[n]]

\* the field map f without key k
WithoutField(f, k) == [n \in DOMAIN f \ {k} |-> f[n]]

\* field maps an annotated sample gives: all fields read, no VIZ field read, nothing
SentinelBases ==
    {AzeScenario,
     MkFields([mrz_upper_line |-> <<AZE_LINE1>>, mrz_lower_line |-> <<AZE_LINE2>>]),
     MkFields([mrz_upper_line |-> <<>>])}

\* one field is marked as present but unread in the first call and left out in the second
InitSentinel ==
    /\ \E f \in SentinelBases, k \in FieldNames, t \in Todays :
           /\ ApplyStarts(WithField(f, k, SENTINEL))
           /\ today = t
           /\ second = CallStarts(WithoutField(f, k), t)
           /\ analysis = None
    /\ base = fields

SpecSentinel == InitSentinel /\ [][NextConcurrent]_vars

-----------------------------------------------------------------------------
(* Direct calls of the pure functions.                                     *)

\* the variables of apply, at rest during a direct call
NoApply ==
    /\ self_rules = RULES
    /\ second = NoCall
    /\ analysis = None
    /\ base = <<>>
    /\ fields = <<>>
    /\ today = <<2026, 11, 5>>
    /\ rule_index = 1
    /\ mrz = None
    /\ violations = <<>>
    /\ rules_failed_set = {}
    /\ result = None

MaxDataLen == 4

CheckDigitAlphabet == {"0", "1", "9", "A", "Z", "<"}

\* every string of at most MaxDataLen characters, and strings of 9 and 44 characters
CheckDigitInputs ==
    UNION {[1..k -> CheckDigitAlphabet] : k \in 0..MaxDataLen}
    \cup {AZE_DOC, SRB_DOC, AZE_LINE1, AZE_LINE2}

InitCheckDigit ==
    /\ NoApply
    /\ pc = "call"
    /\ \E data \in CheckDigitInputs : call = [fn |-> "mrz_check_digit", data |-> data]
    /\ ret = [kind |-> "none"]

CallCheckDigit ==
    /\ pc = "call"
    /\ call.fn = "mrz_check_digit"
    /\ ret' = [kind |-> "value", value |-> mrz_check_digit(call.data)]
    /\ pc' = "returned"
    /\ UNCHANGED <<analysis, base, fields, today, rule_index, mrz, violations, rules_failed_set, result, call, self_rules, second>>

SpecCheckDigit == InitCheckDigit /\ [][CallCheckDigit]_vars

\* characters in and out of the MRZ alphabet: a lower-case letter, a blank, punctuation
AnyAlphabet == {"7", "A", "<", "b", " ", "-"}

InitCheckDigitAny ==
    /\ NoApply
    /\ pc = "call"
    /\ \E data \in UNION {[1..k -> AnyAlphabet] : k \in 0..MaxDataLen} :
           call = [fn |-> "mrz_check_digit", data |-> data]
    /\ ret = [kind |-> "none"]

SpecCheckDigitAny == InitCheckDigitAny /\ [][CallCheckDigit]_vars

\* lines handed to the parser: empty, intact, 39 and 40 characters, padded with
\* blanks, lower case, an embedded blank, an embedded tab, and U+00B2 in each of
\* the five check-digit columns
ParseLines ==
    {<<>>, AZE_LINE1, AZE_LINE2, Slice(AZE_LINE2, 0, 39), Slice(AZE_LINE2, 0, 40),
     <<" ">> \o AZE_LINE2 \o <<" ", "TAB">>,
     [i \in 1..44 |-> IF AZE_LINE2[i] \in Range(UpperChars)
                      THEN LowerChars[IndexOf(UpperChars, AZE_LINE2[i])] ELSE AZE_LINE2[i]],
     InsertCol(Slice(AZE_LINE2, 0, 39), 5, " "),
     InsertCol(Slice(AZE_LINE2, 0, 39), 5, "TAB"),
     SetCol(AZE_LINE2, 9, "sup2"), SetCol(AZE_LINE2, 19, "sup2"), SetCol(AZE_LINE2, 27, "sup2"),
     SetCol(AZE_LINE2, 42, "sup2"), SetCol(AZE_LINE2, 43, "sup2"),
     SetCol(AZE_LINE2, 9, "<"), <<"P","<","U","T","O","E","R","I","K","S","S","O","N","<","A","N","N","A","<","M","A","R","I","A">> \o Rep("<", 20),
     <<"P","<","U","T","O","E","R","I","K","S","S","O","N","<","<","A","N","N","A","<","<","M","A","R","I","A">> \o Rep("<", 18)}

InitParse ==
    /\ NoApply
    /\ pc = "call"
    /\ \E line1 \in ParseLines, line2 \in ParseLines :
           call = [fn |-> "parse_mrz_td3", line1 |-> line1, line2 |-> line2]
    /\ ret = [kind |-> "none"]

CallParse ==
    /\ pc = "call"
    /\ call.fn = "parse_mrz_td3"
    /\ ret' = IF parse_mrz_td3_raises(call.line1, call.line2)
              THEN [kind |-> "raised", exc |-> "ValueError"]
              ELSE [kind |-> "value", value |-> parse_mrz_td3(call.line1, call.line2)]
    /\ pc' = "returned"
    /\ UNCHANGED <<analysis, base, fields, today, rule_index, mrz, violations, rules_failed_set, result, call, self_rules, second>>

SpecParse == InitParse /\ [][CallParse]_vars

-----------------------------------------------------------------------------
(* AnalyzeDocumentUseCase.execute: quality gate, OCR, rules engine, optional *)
(* fraud classifier, decision. What the three ports return is an input of   *)
(* the call; scores are in thousandths; a dict of latencies is the sequence *)
(* of its keys in insertion order.                                          *)

\* AnalysisResult(case_id=cid, pipeline_version=...): the dataclass defaults
AnalysisResult ==
    [quality |-> None, ocr |-> None, rules |-> None, fraud |-> None,
     final_decision |-> "PENDING", final_score |-> 0, rejection_reasons |-> <<>>,
     stage_latencies |-> <<>>]

\* what IQualityGate.evaluate returns: an accepted image, an undecodable one, a
\* blurred one
QualityResults ==
    {[quality_ok |-> TRUE, quality_score |-> 950, reasons |-> <<>>, recommendation |-> "ACCEPT"],
     [quality_ok |-> FALSE, quality_score |-> 0, reasons |-> <<"INVALID_IMAGE">>, recommendation |-> "RECAPTURE"],
     [quality_ok |-> FALSE, quality_score |-> 620, reasons |-> <<"BLUR_HIGH">>, recommendation |-> "REVIEW"]}

\* what IOCREngine.extract returns, as the dict apply makes of OCRResult.fields:
\* REAL_AZE, another surname, a birth year beyond a C int, a line 1 that does not
\* start with P, one digit swapped, U+00B2 for a check digit, nothing
OcrResults ==
    {AzeScenario,
     WithField(AzeScenario, "primary_identifier", <<"S","M","I","T","H">>),
     WithField(AzeScenario, "date_of_birth",
               <<"0","5",".","1","0",".","9","9","9","9","9","9","9","9","9","9","9">>),
     WithField(AzeScenario, "mrz_upper_line", SetCol(AZE_LINE1, 0, "X")),
     WithField(AzeScenario, "mrz_lower_line", digit_swap(AZE_LINE2, 3, 1)),
     WithField(AzeScenario, "mrz_lower_line", SetCol(AZE_LINE2, 9, "sup2")),
     MkFields([mrz_upper_line |-> <<>>])}

\* self._fraud: no classifier, EfficientNetClassifier (not implemented), one that
\* fails otherwise, and scores above, below and at the threshold
FraudOutcomes ==
    {[kind |-> "absent"],
     [kind |-> "raised", exc |-> "NotImplementedError"],
     [kind |-> "raised", exc |-> "RuntimeError"],
     [kind |-> "value", fraud_score |-> 900, threshold_used |-> 500],
     [kind |-> "value", fraud_score |-> 300, threshold_used |-> 500],
     [kind |-> "value", fraud_score |-> 500, threshold_used |-> 500]}

\* execute(image_bytes) starts: lines 56-60
InitExecute ==
    /\ self_rules = RULES
    /\ second = NoCall
    /\ base = <<>>
    /\ fields = <<>>
    /\ today \in Todays
    /\ rule_index = 1
    /\ mrz = None
    /\ violations = <<>>
    /\ rules_failed_set = {}
    /\ result = None
    /\ pc = "quality"
    /\ \E quality \in QualityResults, ocr \in OcrResults, fraud \in FraudOutcomes :
           call = [fn |-> "execute", quality |-> quality, ocr |-> ocr, fraud |-> fraud]
    /\ ret = [kind |-> "none"]
    /\ analysis = [result |-> AnalysisResult, stage_latencies |-> <<>>, invoked |-> <<>>]

\* 1. quality gate, lines 62-74
QualityGate ==
    /\ pc = "quality"
    /\ LET quality == call.quality
           stage_latencies == Append(analysis.stage_latencies, "quality_ms")
           invoked == Append(analysis.invoked, "quality")
       IN IF ~quality.quality_ok
          THEN /\ analysis' = [result |-> [analysis.result EXCEPT
                                              !.quality = quality,
                                              !.final_decision = "REJECTED",
                                              !.final_score = quality.quality_score,
                                              !.rejection_reasons = quality.reasons,
                                              !.stage_latencies = stage_latencies],
                                stage_latencies |-> stage_latencies, invoked |-> invoked]
               /\ pc' = "returned"
          ELSE /\ analysis' = [result |-> [analysis.result EXCEPT !.quality = quality],
                                stage_latencies |-> stage_latencies, invoked |-> invoked]
               /\ pc' = "ocr"
    /\ UNCHANGED <<base, fields, today, rule_index, mrz, violations, rules_failed_set, result, call, ret,
                   self_rules, second>>

\* 2. OCR, lines 76-80
OcrStage ==
    /\ pc = "ocr"
    /\ analysis' = [result |-> [analysis.result EXCEPT !.ocr = call.ocr],
                    stage_latencies |-> Append(analysis.stage_latencies, "ocr_ms"),
                    invoked |-> Append(analysis.invoked, "ocr")]
    /\ pc' = "apply"
    /\ UNCHANGED <<base, fields, today, rule_index, mrz, violations, rules_failed_set, result, call, ret,
                   self_rules, second>>

\* 3. rules, lines 83-84: self._rules.apply(ocr) is entered (passport_rules.py,
\* lines 166-181)
RulesStage ==
    /\ pc = "apply"
    /\ analysis' = [analysis EXCEPT !.invoked = Append(@, "rules")]
    /\ fields' = call.ocr
    /\ pc' = "parse"
    /\ UNCHANGED <<base, today, rule_index, mrz, violations, rules_failed_set, result, call, ret,
                   self_rules, second>>

\* apply has returned, lines 85-86, and 4. fraud classifier, lines 88-96
FraudStage ==
    /\ pc = "done" /\ call.fn = "execute"
    /\ LET fraud == call.fraud
           with_rules == [result |-> [analysis.result EXCEPT !.rules = result],
                          stage_latencies |-> Append(analysis.stage_latencies, "rules_ms"),
                          invoked |-> analysis.invoked]
           classified == [with_rules EXCEPT !.invoked = Append(@, "fraud")]
       IN CASE fraud.kind = "absent" ->
                   /\ analysis' = with_rules
                   /\ pc' = "decide"
            [] fraud.kind = "value" ->
                   /\ analysis' = [classified EXCEPT !.stage_latencies = Append(@, "fraud_ms"),
                                                     !.result.fraud = fraud]
                   /\ pc' = "decide"
            [] fraud.kind = "raised" /\ fraud.exc = "NotImplementedError" ->
                   /\ analysis' = [classified EXCEPT !.stage_latencies = Append(@, "fraud_ms")]
                   /\ pc' = "decide"
            [] OTHER ->
                   /\ analysis' = classified
                   /\ pc' = "raised"
    /\ UNCHANGED <<base, fields, today, rule_index, mrz, violations, rules_failed_set, result, call, ret,
                   self_rules, second>>

\* [v for v in rules.violations if v.severity in ("HIGH", "CRITICAL")]
critical_violations(rules) == SelectSeq(rules.violations, LAMBDA v : v.severity \in {"HIGH", "CRITICAL"})

\* result.rejection_reasons after lines 99-114
rejection_reasons(quality, rules, fraud) ==
    (IF ~quality.quality_ok THEN quality.reasons ELSE <<>>)
    \o [k \in DOMAIN critical_violations(rules) |-> critical_violations(rules)[k].rule_id]
    \o (IF fraud # None /\ fraud.fraud_score > fraud.threshold_used THEN <<"FRAUD_DETECTED">> ELSE <<>>)

\* the decision when the risk level decides it
Decide_by_risk_level ==
    /\ pc = "decide"
    /\ LET r == analysis.result
           approved == r.rules.risk_level = "LOW"
                       /\ ~(r.fraud # None /\ r.fraud.fraud_score > r.fraud.threshold_used)
       IN analysis' = [analysis EXCEPT !.result =
              [r EXCEPT !.rejection_reasons = rejection_reasons(r.quality, r.rules, r.fraud),
                        !.final_decision = IF approved THEN "APPROVED" ELSE "REJECTED",
                        !.final_score = IF approved THEN 1000 - r.rules.risk_score ELSE r.rules.risk_score,
                        !.stage_latencies = analysis.stage_latencies]]
    /\ pc' = "returned"
    /\ UNCHANGED <<base, fields, today, rule_index, mrz, violations, rules_failed_set, result, call, ret,
                   self_rules, second>>

\* 5. decision, lines 98-133
Decide ==
    /\ pc = "decide"
    /\ LET r == analysis.result
           reasons == rejection_reasons(r.quality, r.rules, r.fraud)
           decision == IF reasons = <<>> THEN "APPROVED"
                       ELSE IF "FRAUD_DETECTED" \in Range(reasons) THEN "REJECTED"
                       ELSE IF Len(critical_violations(r.rules)) > 0 THEN "REJECTED"
                       ELSE "REVIEW"
       IN analysis' = [analysis EXCEPT !.result =
              [r EXCEPT !.rejection_reasons = reasons,
                        !.final_decision = decision,
                        !.final_score = IF reasons = <<>> THEN 1000 - r.rules.risk_score
                                        ELSE r.rules.risk_score,
                        !.stage_latencies = analysis.stage_latencies]]
    /\ pc' = "returned"
    /\ UNCHANGED <<base, fields, today, rule_index, mrz, violations, rules_failed_set, result, call, ret,
                   self_rules, second>>

NextExecute == QualityGate \/ OcrStage \/ RulesStage \/ ParseMRZ \/ RunRule \/ Aggregate \/ FraudStage \/ Decide

SpecExecute == InitExecute /\ [][NextExecute]_vars

-----------------------------------------------------------------------------
(* Properties.                                                             *)

\* the rule ids that occur in a violation list
RuleIds(vs) == {vs[k].rule_id : k \in DOMAIN vs}

\* some violation of the list carries rule id r
Reports(vs, r) == \E k \in DOMAIN vs : vs[k].rule_id = r

\* the ICAO value of a character: digits are themselves, A..Z are 10..35, < is 0
IcaoValue(c) ==
    CASE c = "<" -> 0
      [] c \in Range(DigitChars) -> CHOOSE n \in 0..9 : DigitChars[n + 1] = c
      [] c \in Range(UpperChars) -> CHOOSE n \in 10..35 : UpperChars[n - 9] = c

\* the ICAO weight of position i (0-based)
IcaoWeight(i) == CASE i % 3 = 0 -> 7 [] i % 3 = 1 -> 3 [] i % 3 = 2 -> 1

RECURSIVE IcaoSumFrom(_, _)
\* sum over the positions i, i + 1, ... of s of value * weight
IcaoSumFrom(s, i) ==
    IF i >= Len(s) THEN 0 ELSE IcaoValue(s[i + 1]) * IcaoWeight(i) + IcaoSumFrom(s, i + 1)

\* C1: for every string over the MRZ alphabet, mrz_check_digit returns the weighted
\* sum of the ICAO character values with weights 7, 3, 1, modulo 10; the result is
\* a digit 0..9, and 0 for the empty string.
C1_CheckDigitIsWeightedSum ==
    (pc = "returned" /\ call.fn = "mrz_check_digit") =>
        /\ ret.kind = "value"
        /\ ret.value = IcaoSumFrom(call.data, 0) % 10
        /\ ret.value \in 0..9
        /\ (call.data = <<>> => ret.value = 0)

\* C1 witness: the check digit of the 9-character document number C09255592 is the
\* 1 printed after it in REAL_AZE
C1_Witness ==
    /\ pc = "returned" /\ call.fn = "mrz_check_digit"
    /\ call.data = AZE_DOC
    /\ ret.value = 1

\* the column (0-based) at which two lines of equal length differ, when there is one
DiffColumns(a, b) == {p \in 0..(Len(a) - 1) : a[p + 1] # b[p + 1]}

\* the character that is the ICAO check digit of s
IcaoCheckChar(s) == DigitChars[(IcaoSumFrom(s, 0) % 10) + 1]

\* line 2 of the field map f has 44 characters and carries the ICAO check digits
\* of its document number, DOB and DOE in columns 9, 19 and 27
ChecksumsCorrect(f) ==
    LET l2 == f["mrz_lower_line"]
    IN /\ Len(l2) = 44
       /\ l2[10] = IcaoCheckChar(Slice(l2, 0, 9))
       /\ l2[20] = IcaoCheckChar(Slice(l2, 13, 19))
       /\ l2[28] = IcaoCheckChar(Slice(l2, 21, 27))

\* C2: when one digit of the document number, the DOB or the DOE of a line 2 with
\* correct check digits is replaced by another digit, the check digits staying as
\* they were, apply reports DOC_NUM_CHECK, DOB_CHECK or DOE_CHECK respectively.
C2_DigitSwapDetected ==
    (pc = "done" /\ ChecksumsCorrect(base)) =>
        \A p \in DiffColumns(base["mrz_lower_line"], fields["mrz_lower_line"]) :
            /\ (p \in 0..8 => Reports(result.violations, "DOC_NUM_CHECK"))
            /\ (p \in 13..18 => Reports(result.violations, "DOB_CHECK"))
            /\ (p \in 21..26 => Reports(result.violations, "DOE_CHECK"))

\* C2 witness: the last digit of the document number was swapped and apply has
\* reported DOC_NUM_CHECK
C2_Witness ==
    /\ pc = "done" /\ ChecksumsCorrect(base)
    /\ DiffColumns(base["mrz_lower_line"], fields["mrz_lower_line"]) = {8}
    /\ Reports(result.violations, "DOC_NUM_CHECK")

ChecksumRuleIds == {"MRZ_FORMAT", "DOC_NUM_CHECK", "DOB_CHECK", "DOE_CHECK", "PN_CHECK", "COMPOSITE_CHECK"}

\* C3: an MRZ pair whose line 1 has 44 characters and starts with P and whose line 2
\* was assembled with all five check digits computed by mrz_check_digit gets no
\* CRITICAL or HIGH violation from the format rule and the five checksum rules.
C3_RoundTrip ==
    (pc = "done" /\ Len(fields["mrz_upper_line"]) = 44 /\ StartsWith(fields["mrz_upper_line"], "P")
     /\ fields["mrz_lower_line"] \in BuiltLines) =>
        \A k \in DOMAIN result.violations :
            ~(result.violations[k].rule_id \in ChecksumRuleIds
              /\ result.violations[k].severity \in {"CRITICAL", "HIGH"})

\* C3 witness: a built pair with a personal number went through all ten rules, and
\* a rule outside the six reported something
C3_Witness ==
    /\ pc = "done" /\ fields["mrz_lower_line"] \in BuiltLines
    /\ mrz # None /\ mrz.is_valid_format /\ mrz.personal_number # <<>>
    /\ mrz.personal_number_check # 0
    /\ Reports(result.violations, "COUNTRY_CODE")

\* C4: apply returns a result for every field map; it never raises.
C4_ApplyNeverRaises == pc # "raised"

\* line.strip(), every embedded whitespace character removed, upper-cased
TrimmedNoWhitespaceUpper(line) == Upper(SelectSeq(Strip(line), LAMBDA c : ~IsSpaceChar(c)))

\* C5: parse_mrz_td3 never raises; is_valid_format is true exactly when both lines
\* have at least 40 characters after trimming, removing embedded whitespace and
\* upper-casing; when it is false every parsed field keeps its default and the raw
\* lines hold the inputs.
C5_ParseNeverRaises ==
    (pc = "returned" /\ call.fn = "parse_mrz_td3") =>
        /\ ret.kind = "value"
        /\ ret.value.is_valid_format <=>
               (Len(TrimmedNoWhitespaceUpper(call.line1)) >= 40
                /\ Len(TrimmedNoWhitespaceUpper(call.line2)) >= 40)
        /\ (~ret.value.is_valid_format => ret.value = MRZParsed(call.line1, call.line2))

\* the violations of a list that carry rule id r
OfRule(vs, r) == SelectSeq(vs, LAMBDA v : v.rule_id = r)

C7_FailedCountsDistinctIds ==
    pc = "done" =>
        /\ result.rules_failed = Cardinality(RuleIds(result.violations))
        /\ result.rules_total = 10
        /\ result.rules_passed = 10 - result.rules_failed

\* twice the weight of a severity: CRITICAL = 3, HIGH = 2, MEDIUM = 1, LOW = 0.5
ClaimedWeight2(severity) ==
    CASE severity = "CRITICAL" -> 6 [] severity = "HIGH" -> 4 [] severity = "MEDIUM" -> 2 [] severity = "LOW" -> 1

RECURSIVE ClaimedW2(_, _)
\* twice W: the weights of the first n violations of the list, summed
ClaimedW2(vs, n) == IF n = 0 THEN 0 ELSE ClaimedW2(vs, n - 1) + ClaimedWeight2(vs[n].severity)

\* min(1.0, W / 15) as the numerator of a fraction over 30
ClaimedScore30(vs) == Min(30, ClaimedW2(vs, Len(vs)))

\* C8 as stated: the returned risk score (here in thousandths) is exactly
\* min(1.0, W / 15), lies in [0, 1] and is 0 exactly for the empty list.
C8_ScoreIsExactQuotient ==
    pc = "done" =>
        /\ 30 * result.risk_score = 1000 * ClaimedScore30(result.violations)
        /\ result.risk_score \in 0..1000
        /\ (result.risk_score = 0 <=> result.violations = <<>>)

\* C8 amended: the returned risk score is min(1.0, W / 15) rounded to three
\* decimals (the thousandth nearest to it), lies in [0, 1] and is 0 exactly for
\* the empty list; two violations of one rule both count.
C8_ScoreIsRoundedQuotient ==
    pc = "done" =>
        LET diff == 30 * result.risk_score - 1000 * ClaimedScore30(result.violations)
        IN /\ diff < 15 /\ -diff < 15
           /\ result.risk_score \in 0..1000
           /\ (result.risk_score = 0 <=> result.violations = <<>>)

\* C8 witness: a list in which one rule has two violations and whose score is not
\* a whole number of thousandths before rounding
C8_Witness ==
    /\ pc = "done"
    /\ Len(OfRule(result.violations, "MRZ_FORMAT")) = 2
    /\ 30 * result.risk_score # 1000 * ClaimedScore30(result.violations)

\* the level the thresholds give for a score in thousandths
LevelOfScore(s) ==
    IF s >= 700 THEN "CRITICAL" ELSE IF s >= 400 THEN "HIGH" ELSE IF s >= 200 THEN "MEDIUM" ELSE "LOW"

\* the level the thresholds give for twice the total weight
LevelOfW2(w2) ==
    IF w2 >= 21 THEN "CRITICAL" ELSE IF w2 >= 12 THEN "HIGH" ELSE IF w2 >= 6 THEN "MEDIUM" ELSE "LOW"

\* C9: risk_level follows from the returned (rounded) risk_score by the thresholds
\* 0.7, 0.4 and 0.2, and from the total weight W by 10.5, 6 and 3.
C9_LevelFromScore ==
    pc = "done" =>
        /\ result.risk_level = LevelOfScore(result.risk_score)
        /\ result.risk_level = LevelOfW2(ClaimedW2(result.violations, Len(result.violations)))

\* C9 witness: a score exactly on the HIGH threshold
C9_Witness ==
    /\ pc = "done"
    /\ result.risk_score = 400
    /\ result.risk_level = "HIGH"

\* C10: without a parsed MRZ record, or with a record that is not format-valid,
\* only MRZ_FORMAT and REQUIRED_FIELDS occur in the violation list, and no rule
\* execution error does.
C10_InvalidFormatNoOps ==
    (pc # "raised" /\ (mrz = None \/ ~mrz.is_valid_format)) =>
        \A k \in DOMAIN violations :
            /\ violations[k].rule_id \in {"MRZ_FORMAT", "REQUIRED_FIELDS"}
            /\ violations[k].detail # "Rule execution error"

\* C10 witness: apply returned for a record that is not format-valid although its
\* line 2 has all 44 characters
C10_Witness ==
    /\ pc = "done"
    /\ mrz # None /\ ~mrz.is_valid_format
    /\ Len(mrz.raw_line2) = 44
    /\ Reports(result.violations, "MRZ_FORMAT")

\* the MRZ line under key k of the field map f is absent, empty, or has fewer than
\* 40 characters after whitespace normalisation
LineMalformed(f, k) == Len(TrimmedNoWhitespaceUpper(Get(f, k))) < 40

\* C11: when an MRZ line is absent, empty or shorter than 40 characters after
\* whitespace normalisation, apply does not raise and its result holds an
\* MRZ_FORMAT or a REQUIRED_FIELDS violation.
C11_MalformedLineReported ==
    (call.fn = "apply" /\ (LineMalformed(fields, "mrz_upper_line") \/ LineMalformed(fields, "mrz_lower_line"))) =>
        /\ pc # "raised"
        /\ pc = "done" => (Reports(result.violations, "MRZ_FORMAT") \/ Reports(result.violations, "REQUIRED_FIELDS"))

\* C13: for the valid AZE scenario apply yields rules_failed = 0 and risk_level LOW.
C13_ValidAzeScenario ==
    (pc = "done" /\ fields = AzeScenario) =>
        /\ result.rules_failed = 0
        /\ result.risk_level = "LOW"

\* C14: for the valid AZE scenario with the VIZ primary_identifier overwritten to
\* SMITH, apply yields a CROSS_CHECK violation and a risk_level of at least MEDIUM.
C14_NameMismatchElevates ==
    (pc = "done" /\ fields = [AzeScenario EXCEPT !["primary_identifier"] = <<"S","M","I","T","H">>]) =>
        /\ Reports(result.violations, "CROSS_CHECK")
        /\ result.risk_level \in {"MEDIUM", "HIGH", "CRITICAL"}

\* C15: for the empty field map apply does not raise and returns a non-empty
\* violation list holding MRZ_FORMAT and REQUIRED_FIELDS violations, with
\* risk_level CRITICAL or HIGH.
C15_EmptyMap ==
    (call.fn = "apply" /\ DOMAIN fields = {}) =>
        /\ pc # "raised"
        /\ pc = "done" =>
               /\ result.violations # <<>>
               /\ Reports(result.violations, "MRZ_FORMAT")
               /\ Reports(result.violations, "REQUIRED_FIELDS")
               /\ result.risk_level \in {"CRITICAL", "HIGH"}

\* C15 witness: apply returned for the empty field map, with seven violations
C15_Witness ==
    /\ pc = "done" /\ call.fn = "apply"
    /\ DOMAIN fields = {}
    /\ Len(result.violations) = 7

\* the place of a rule id in the catalog
CatalogIndex(r) == CHOOSE i \in DOMAIN RULES : RULES[i][1] = r

\* a violation list in which no violation of an earlier rule comes after one of a later rule
InCatalogOrder(vs) ==
    \A k, l \in DOMAIN vs : k < l => CatalogIndex(vs[k].rule_id) <= CatalogIndex(vs[l].rule_id)

\* C18: the violation list follows the catalog's order while it is built and when
\* it is returned, rule-execution-error violations included.
C18_CatalogOrder ==
    /\ InCatalogOrder(violations)
    /\ pc = "done" => (result.violations = violations /\ InCatalogOrder(result.violations))

\* C18 witness: a returned list with violations of three rules, the last one a
\* rule execution error
C18_Witness ==
    /\ pc = "done"
    /\ Cardinality(RuleIds(result.violations)) >= 3
    /\ result.violations[Len(result.violations)].detail = "Rule execution error"

\* C12: apply run twice on the same field map returns the same result (score,
\* level, counts, violation list and its order), whenever the two runs take place.
C12_SameInputSameResult ==
    (pc = "done" /\ second.pc = "done" /\ second.fields = fields) => second.result = result

\* the rule identifiers and severities of a violation list, in its order
Outcome(vs) == [k \in DOMAIN vs |-> <<vs[k].rule_id, vs[k].severity>>]

\* C16: a field holding the sentinel [bbox_present] yields the same violations
\* (rule identifiers and severities) as the same field map without that field.
C16_SentinelAsAbsent ==
    (pc = "done" /\ second.pc = "done"
     /\ \E k \in DOMAIN fields : fields[k] = SENTINEL /\ second.fields = WithoutField(fields, k)) =>
        Outcome(result.violations) = Outcome(second.result.violations)

\* apply(f) run alone raises: the parser does
AloneRaises(f) ==
    /\ Get(f, "mrz_upper_line") # <<>> /\ Get(f, "mrz_lower_line") # <<>>
    /\ parse_mrz_td3_raises(Get(f, "mrz_upper_line"), Get(f, "mrz_lower_line"))

\* the MRZ record of apply(f) run alone
AloneMrz(f) ==
    IF Get(f, "mrz_upper_line") # <<>> /\ Get(f, "mrz_lower_line") # <<>>
    THEN parse_mrz_td3(Get(f, "mrz_upper_line"), Get(f, "mrz_lower_line"))
    ELSE None

RECURSIVE AloneViolations(_, _, _, _)
\* the violations that the rules i, i + 1, ... of the catalog give for f when nothing else runs
AloneViolations(f, m, t, i) ==
    IF i > Len(RULES) THEN <<>>
    ELSE (IF RuleRaises(i, f, m, t)
          THEN <<RuleViolation(RULES[i][1], RULES[i][2], "LOW", "Rule execution error")>>
          ELSE Wrap(i, RuleFn(i, f, m, t)))
         \o AloneViolations(f, m, t, i + 1)

\* the result of apply(f) run alone on a day t
ApplyAlone(f, t) ==
    LET m == AloneMrz(f)
    IN RulesResult(AloneViolations(f, m, t, 1),
                   {RULES[i][1] : i \in {j \in DOMAIN RULES : ~RuleRaises(j, f, m, t) /\ RuleFn(j, f, m, t) # <<>>}})

\* C19: apply leaves the rule catalog and the input field maps unchanged, and each
\* of two calls interleaved at rule granularity on one engine ends as it ends
\* when run alone: with the same result, or raising.
C19_CallsIndependent ==
    /\ [](self_rules = RULES /\ fields = base)
    /\ [][second'.fields = second.fields /\ second'.today = second.today]_vars
    /\ []((pc = "done" => (~AloneRaises(fields) /\ result = ApplyAlone(fields, today)))
          /\ (pc = "raised" => AloneRaises(fields)))
    /\ []((second.pc = "done" => (~AloneRaises(second.fields)
                                  /\ second.result = ApplyAlone(second.fields, second.today)))
          /\ (second.pc = "raised" => AloneRaises(second.fields)))

\* C19 witness: two calls on different field maps have both returned, each with
\* violations of its own
C19_Witness ==
    /\ pc = "done" /\ second.pc = "done"
    /\ fields # second.fields
    /\ result.violations # <<>> /\ second.result.violations # <<>>
    /\ result.violations # second.result.violations

\* a character outside A-Z, 0-9 and <
OutsideMrzAlphabet(c) == c \notin Range(UpperChars) \cup Range(DigitChars) \cup {"<"}

\* s with every character outside the MRZ alphabet replaced by <
FillOutside(s) == [i \in DOMAIN s |-> IF OutsideMrzAlphabet(s[i]) THEN "<" ELSE s[i]]

\* C17: in mrz_check_digit a character outside A-Z, 0-9 and < counts 0, so the
\* check digit is that of the string with every such character replaced by <.
C17_UnmappedCountsZero ==
    (pc = "returned" /\ call.fn = "mrz_check_digit") =>
        ret.value = IcaoSumFrom(FillOutside(call.data), 0) % 10

\* the year a two-digit year stands for: below 30 in the 2000s, otherwise in the 1900s
ClaimedYear(yy) == IF yy < 30 THEN 2000 + yy ELSE 1900 + yy

\* C20: parse_mrz_date, the two-digit-year branch of CROSS_CHECK and _format_date
\* read a two-digit year alike (below 30 as 20YY, otherwise 19YY), so a VIZ birth
\* date that is the MRZ's own calendar-valid YYMMDD, formatted by _format_date or
\* written with its two-digit year, gives no CROSS_CHECK DOB mismatch.
C20_CenturyRuleConsistent ==
    (/\ pc = "done" /\ mrz # None /\ mrz.is_valid_format
     /\ parse_mrz_date(mrz.date_of_birth) # None
     /\ Get(fields, "date_of_birth") \in {format_date(mrz.date_of_birth), ShortYearViz(mrz.date_of_birth)}) =>
        LET yy == Int2(Slice(mrz.date_of_birth, 0, 2))
            viz == FindAllDigits(fields["date_of_birth"], 1, <<>>)
        IN /\ parse_mrz_date(mrz.date_of_birth)[1] = ClaimedYear(yy)
           /\ VizYear(DigitsValue(viz[3])) = ClaimedYear(yy)
           /\ \A k \in DOMAIN result.violations :
                  result.violations[k].rule_id = "CROSS_CHECK" => result.violations[k].detail # "DOB mismatch"

\* C20 witness: extract formatted 050101 as 01.01.2005, apply compared it with the
\* MRZ date and reported no CROSS_CHECK violation
C20_Witness ==
    /\ pc = "done" /\ call.fn = "extract"
    /\ mrz # None /\ mrz.is_valid_format
    /\ mrz.date_of_birth = <<"0","5","0","1","0","1">>
    /\ fields["date_of_birth"] = <<"0","1",".","0","1",".","2","0","0","5">>
    /\ VizDobCompared(fields, mrz)
    /\ ~Reports(result.violations, "CROSS_CHECK")

\* the (severity, detail) pairs that rule r contributed to a violation list
Findings(vs, r) == {<<vs[k].severity, vs[k].detail>> : k \in {j \in DOMAIN vs : vs[j].rule_id = r}}

\* line 2 has 44 characters and its last is the ICAO check digit of columns
\* 0..9, 13..19 and 21..42
CompositeCorrect(l2) ==
    /\ Len(l2) = 44
    /\ l2[44] = IcaoCheckChar(Slice(l2, 0, 10) \o Slice(l2, 13, 20) \o Slice(l2, 21, 43))

\* line 2 of the variant is line 2 of the base document with other characters in
\* the nationality columns 10..12 and nowhere else
NationalityReplaced ==
    LET b == base["mrz_lower_line"]
        l == fields["mrz_lower_line"]
    IN /\ Len(l) = Len(b)
       /\ DiffColumns(b, l) # {}
       /\ DiffColumns(b, l) \subseteq 10..12

\* a code over A..Z, 0..9 and the filler that has a character besides the filler
\* and is not a known alpha-3 code
UnknownCode(code) ==
    LET c == RemoveChar(code, "<")
    IN /\ \A k \in DOMAIN code : code[k] \in Range(UpperChars) \cup Range(DigitChars) \cup {"<"}
       /\ c # <<>>
       /\ c \notin VALID_COUNTRY_CODES

TwoDigits(s, from) == 10 * IcaoValue(s[from + 1]) + IcaoValue(s[from + 2])

\* the days of month m of year y
CalendarDays(y, m) ==
    CASE m \in {4, 6, 9, 11} -> 30
      [] m = 2 -> (IF y % 4 = 0 /\ (y % 100 # 0 \/ y % 400 = 0) THEN 29 ELSE 28)
      [] OTHER -> 31

\* the calendar date a six-digit YYMMDD stands for under the century rule, None
\* when it is not six digits or not a day of the calendar
ClaimedDate(s) ==
    IF Len(s) # 6 \/ \E k \in DOMAIN s : s[k] \notin Range(DigitChars) THEN None
    ELSE LET y == ClaimedYear(TwoDigits(s, 0))
             m == TwoDigits(s, 2)
             d == TwoDigits(s, 4)
         IN IF m \in 1..12 /\ d \in 1..CalendarDays(y, m) THEN <<y, m, d>> ELSE None

\* date a is after date b
Later(a, b) ==
    \/ a[1] > b[1]
    \/ a[1] = b[1] /\ a[2] > b[2]
    \/ a[1] = b[1] /\ a[2] = b[2] /\ a[3] > b[3]

\* C22: the variant of fraud_future_dob, line 2 rebuilt with correct check digits
\* around 350101 for the birth date 1 January 2035, triggers DATE_PLAUSIBILITY on
\* every today before 2035.
C22_FutureDobReported ==
    (/\ pc = "done"
     /\ fields = fraud_future_dob(base, <<"3","5","0","1","0","1">>)
     /\ Later(<<2035, 1, 1>>, today)) =>
        Reports(result.violations, "DATE_PLAUSIBILITY")

\* date a is more than n years of 365.25 days after date b
MoreThanYears(a, b, n) == 100 * DaysBetween(a, b) > 36525 * n

\* the pair, when the condition holds
Finding(cond, severity, detail) == IF cond THEN {<<severity, detail>>} ELSE {}

\* the DATE_PLAUSIBILITY findings C28 states for a birth date, an expiry date
\* (None when not calendar-valid) and today
ClaimedDateFindings(dob, doe, t) ==
    Finding(dob # None /\ Later(dob, t), "CRITICAL", "DOB in future")
    \cup Finding(dob # None /\ MoreThanYears(t, dob, 150), "HIGH", "Implausible age")
    \cup Finding(doe # None /\ Later(t, doe), "CRITICAL", "Document expired")
    \cup Finding(doe # None /\ MoreThanYears(doe, t, 15), "HIGH", "Expiry too far")
    \cup Finding(dob # None /\ doe # None /\ ~Later(doe, dob), "CRITICAL", "DOB after DOE")

C30_ExpiryCenturyConsequences ==
    (/\ pc = "done" /\ mrz # None /\ mrz.is_valid_format
     /\ ClaimedDate(mrz.date_of_expiry) # None) =>
        /\ (TwoDigits(mrz.date_of_expiry, 0) >= 30 /\ ~Later(<<2000, 1, 1>>, today)) =>
               /\ parse_mrz_date(mrz.date_of_expiry)[1] = 1900 + TwoDigits(mrz.date_of_expiry, 0)
               /\ <<"CRITICAL", "Document expired">> \in Findings(result.violations, "DATE_PLAUSIBILITY")
        /\ ~Later(parse_mrz_date(mrz.date_of_expiry), <<2029, 12, 31>>)
        /\ ~Later(<<2015, 1, 1>>, today) =>
               <<"HIGH", "Expiry too far">> \notin Findings(result.violations, "DATE_PLAUSIBILITY")

\* C30 witness: the latest expiry date there is, 291231, read on 1 January 2015, is
\* not reported as too far
C30_Witness ==
    /\ pc = "done" /\ mrz # None /\ mrz.is_valid_format
    /\ today = <<2015, 1, 1>>
    /\ mrz.date_of_expiry = <<"2","9","1","2","3","1">>
    /\ ~Reports(result.violations, "DATE_PLAUSIBILITY")

\* some violation of the list carries rule id r and severity CRITICAL
ReportsCritical(vs, r) == \E k \in DOMAIN vs : vs[k].rule_id = r /\ vs[k].severity = "CRITICAL"

\* C24: for a format-valid MRZ, DOC_NUM_CHECK, DOB_CHECK, DOE_CHECK and, for a line
\* of at least 44 characters, COMPOSITE_CHECK report a CRITICAL violation exactly
\* when the digit computed over columns 0..8, 13..18, 21..26 and 0..9 + 13..19 +
\* 21..42 of the line the parser sliced (line 2 trimmed, spaces removed,
\* upper-cased) differs from the parsed check digit, embedded spaces or not.
C24_ChecksumRulesAgreeWithParser ==
    (pc = "done" /\ mrz # None /\ mrz.is_valid_format) =>
        LET l2 == NormalizeLine(mrz.raw_line2)
        IN /\ ReportsCritical(result.violations, "DOC_NUM_CHECK")
                  <=> mrz_check_digit(Slice(l2, 0, 9)) # mrz.document_number_check
           /\ ReportsCritical(result.violations, "DOB_CHECK")
                  <=> mrz_check_digit(Slice(l2, 13, 19)) # mrz.dob_check
           /\ ReportsCritical(result.violations, "DOE_CHECK")
                  <=> mrz_check_digit(Slice(l2, 21, 27)) # mrz.doe_check
           /\ Len(l2) >= 44 =>
                  (ReportsCritical(result.violations, "COMPOSITE_CHECK")
                      <=> mrz_check_digit(Slice(l2, 0, 10) \o Slice(l2, 13, 20) \o Slice(l2, 21, 43))
                              # mrz.composite_check)

\* C25: for a format-valid MRZ, a parsed document-number, DOB, DOE or composite
\* check digit of -1 is reported by DOC_NUM_CHECK, DOB_CHECK, DOE_CHECK or
\* COMPOSITE_CHECK respectively.
C25_SentinelDigitReported ==
    (pc = "done" /\ mrz # None /\ mrz.is_valid_format) =>
        /\ (mrz.document_number_check = -1 => Reports(result.violations, "DOC_NUM_CHECK"))
        /\ (mrz.dob_check = -1 => Reports(result.violations, "DOB_CHECK"))
        /\ (mrz.doe_check = -1 => Reports(result.violations, "DOE_CHECK"))
        /\ (mrz.composite_check = -1 => Reports(result.violations, "COMPOSITE_CHECK"))

\* the places of s where a "<<" begins
SeparatorPlaces(s) == {i \in 1..(Len(s) - 1) : s[i] = "<" /\ s[i + 1] = "<"}

\* the fillers of s turned into spaces, trimmed
NameText(s) == Strip(ReplaceChar(s, "<", " "))

\* the primary identifier C26 states for a name section
ClaimedPrimary(section) ==
    IF SeparatorPlaces(section) = {} THEN NameText(section)
    ELSE LET p == CHOOSE i \in SeparatorPlaces(section) : \A j \in SeparatorPlaces(section) : i <= j
         IN NameText(SubSeq(section, 1, p - 1))

\* the secondary identifier C26 states for a name section
ClaimedSecondary(section) ==
    IF SeparatorPlaces(section) = {} THEN <<>>
    ELSE LET p == CHOOSE i \in SeparatorPlaces(section) : \A j \in SeparatorPlaces(section) : i <= j
         IN NameText(SubSeq(section, p + 2, Len(section)))

\* C26: for a format-valid line 1, the name section (column 5 on) is split on the
\* first "<<": the primary identifier is the text before it, the secondary
\* identifier everything after it, fillers turned into spaces and trimmed; with no
\* "<<" the whole section is the primary identifier and the secondary is empty.
C26_NameSplitOnFirstSeparator ==
    (/\ pc = "returned" /\ call.fn = "parse_mrz_td3"
     /\ ret.kind = "value" /\ ret.value.is_valid_format) =>
        LET section == SliceFrom(NormalizeLine(call.line1), 5)
        IN /\ ret.value.primary_identifier = ClaimedPrimary(section)
           /\ ret.value.secondary_identifier = ClaimedSecondary(section)

\* the VIZ field k of f is present, non-blank and not the sentinel
VizUsable(f, k) ==
    /\ k \in DOMAIN f
    /\ Strip(f[k]) # <<>>
    /\ Upper(Strip(f[k])) # Upper(SENTINEL)

\* the date a VIZ birth date stands for: its first three digit groups as day, month
\* and year, a two-digit year by the century rule; None when there are fewer groups
\* or they are no day of the calendar
ClaimedVizDate(s) ==
    LET groups == FindAllDigits(Strip(s), 1, <<>>)
    IN IF Len(groups) < 3 \/ \E k \in 1..3 : Len(StripZeros(groups[k])) > 4 THEN None
       ELSE LET d == DigitsValue(groups[1])
                m == DigitsValue(groups[2])
                y == IF DigitsValue(groups[3]) < 100 THEN ClaimedYear(DigitsValue(groups[3]))
                     ELSE DigitsValue(groups[3])
            IN IF y >= 1 /\ m \in 1..12 /\ d \in 1..CalendarDays(y, m) THEN <<y, m, d>> ELSE None

\* the CROSS_CHECK findings C27 states for a field map and a format-valid MRZ
ClaimedCrossFindings(f, m) ==
    Finding(VizUsable(f, "document_number")
            /\ Upper(RemoveChar(Strip(Get(f, "document_number")), " ")) # RemoveChar(m.document_number, "<"),
            "CRITICAL", "Doc# mismatch")
    \cup Finding(VizUsable(f, "primary_identifier")
                 /\ Slice(Upper(Strip(Get(f, "primary_identifier"))), 0, 3) # Slice(m.primary_identifier, 0, 3),
                 "HIGH", "Surname mismatch")
    \cup Finding(VizUsable(f, "sex") /\ Slice(Upper(Strip(Get(f, "sex"))), 0, 1) # Slice(m.sex, 0, 1),
                 "HIGH", "Sex mismatch")
    \cup Finding(VizUsable(f, "date_of_birth")
                 /\ ClaimedVizDate(Get(f, "date_of_birth")) # None
                 /\ ClaimedDate(m.date_of_birth) # None
                 /\ ClaimedVizDate(Get(f, "date_of_birth")) # ClaimedDate(m.date_of_birth),
                 "CRITICAL", "DOB mismatch")

\* C27: for a format-valid MRZ, CROSS_CHECK compares the VIZ fields that are
\* present, non-blank and not the sentinel, and reports CRITICAL a document number
\* that differs, HIGH a surname whose first three characters differ, HIGH a sex
\* whose first character differs, CRITICAL a valid VIZ birth date that differs from
\* the MRZ birth date, and nothing else.
C27_CrossCheckFindings ==
    (pc = "done" /\ mrz # None /\ mrz.is_valid_format) =>
        Findings(result.violations, "CROSS_CHECK") = ClaimedCrossFindings(fields, mrz)

\* the stages of execute in their order
StageOrder == <<"quality", "ocr", "rules", "fraud">>

\* s is a beginning of t
IsPrefix(s, t) == Len(s) <= Len(t) /\ \A k \in DOMAIN s : s[k] = t[k]

\* C23: execute invokes quality gate, OCR, rules engine and fraud classifier in
\* this order; when the quality gate fails it returns at once with the decision
\* RECAPTURE, having invoked neither OCR nor rules engine nor fraud classifier.
C23_QualityFailureReturnsRecapture ==
    call.fn = "execute" =>
        /\ IsPrefix(analysis.invoked, StageOrder)
        /\ (analysis.result.quality # None /\ ~analysis.result.quality.quality_ok) =>
               /\ pc = "returned"
               /\ analysis.result.final_decision = "RECAPTURE"
               /\ analysis.invoked = <<"quality">>

=============================================================================
